---- MODULE Spec2Model ----
(***************************************************************************)
(* Model of the PDF anchor-text core of typhoon-ocr (src/utils.py):        *)
(* _merge_image_elements, _cleanup_element_text, _cap_split_string and     *)
(* _linearize_pdf_report.                                                  *)
(*                                                                         *)
(* Numbers.  Every coordinate of the model is an integer that counts HALF  *)
(* page points (the float 2.5 is the integer 5).  Multiples of 0.5 are      *)
(* exact binary floats, so the float arithmetic of the code (max, min,     *)
(* subtraction, <=) is exact on them; the default tolerance 0.5 is 1.      *)
(* Strings are sequences of one-character strings, so that len(), the      *)
(* f-string formats, strip(), the escaping and the slicing are computed.   *)
(***************************************************************************)
EXTENDS Integers, Sequences, FiniteSets, TLC

VARIABLES report, max_length, tolerance, pc, parent, i, j, images,
          selected_elements, remaining_elements, current_length, k, result,
          ops, xobjects, text_elements, image_elements, call

vars == <<report, max_length, tolerance, pc, parent, i, j, images,
          selected_elements, remaining_elements, current_length, k, result,
          ops, xobjects, text_elements, image_elements, call>>

\* the state of the page extractor (_pdf_report) and the arguments of a
\* single call of one of the pure helpers
pdf_vars == <<ops, xobjects, text_elements, image_elements, call>>

----------------------------------------------------------------------------
(* Bounds of the model *)

MaxTexts == 3

MaxImages == 3

\* the longest freely chosen run of characters at the start of a text
MaxCore == 3

\* the significant bits of a float of the model (a Python float has 53):
\* integers below 2^FloatBits are exact, larger results are rounded
FloatBits == 4

\* the longest sequence of callbacks of one page
MaxOps == 3

\* the most pages of a document
MaxPages == 3

\* the longest list of requested page numbers
MaxRequested == 2

----------------------------------------------------------------------------
(* Generic sequence helpers *)

Range(s) == { s[n] : n \in 1..Len(s) }

RECURSIVE Flatten(_)
Flatten(ss) == IF ss = <<>> THEN <<>> ELSE Head(ss) \o Flatten(Tail(ss))

\* the concatenation of the pieces of a text; the pieces are halved to keep
\* the recursion shallow on long texts
RECURSIVE Concat(_)
Concat(ss) ==
    IF ss = <<>> THEN <<>>
    ELSE IF Len(ss) = 1 THEN ss[1]
    ELSE Concat(SubSeq(ss, 1, Len(ss) \div 2))
         \o Concat(SubSeq(ss, (Len(ss) \div 2) + 1, Len(ss)))

RECURSIVE SumLen(_)
SumLen(ss) == IF ss = <<>> THEN 0 ELSE Len(Head(ss)) + SumLen(Tail(ss))

Max2(a, b) == IF a >= b THEN a ELSE b

Min2(a, b) == IF a <= b THEN a ELSE b

SeqsUpTo(S, n) == UNION { [1..m -> S] : m \in 0..n }

InjSeqsUpTo(S, n) ==
    { s \in SeqsUpTo(S, n) : \A a, b \in 1..Len(s) : a # b => s[a] # s[b] }

Perms(n) == { p \in [1..n -> 1..n] : \A a, b \in 1..n : a # b => p[a] # p[b] }

----------------------------------------------------------------------------
(* Number formatting: the f-string conversions of _linearize_pdf_report *)

DigitChars == <<"0", "1", "2", "3", "4", "5", "6", "7", "8", "9">>

RECURSIVE Dec(_)
Dec(n) == IF n < 10 THEN <<DigitChars[n + 1]>>
          ELSE Dec(n \div 10) \o <<DigitChars[(n % 10) + 1]>>

\* f"{v:.0f}" for v = h/2, h >= 0: round to nearest, a tie (h odd) to even
RoundHalfEven(h) ==
    IF h % 2 = 0 THEN h \div 2
    ELSE IF ((h - 1) \div 2) % 2 = 0 THEN (h - 1) \div 2 ELSE (h + 1) \div 2

Fmt0(h) == Dec(RoundHalfEven(h))

\* f"{v:.1f}" for v = h/2, h >= 0: one exact decimal, .0 or .5
Fmt1(h) == Dec(h \div 2) \o <<".">> \o (IF h % 2 = 0 THEN <<"0">> ELSE <<"5">>)

----------------------------------------------------------------------------
(* Text sanitizer *)

MAX_TEXT_ELEMENT_LENGTH == 250

IsSpace(c) == c \in {" ", "\t", "\n", "\r"}

\* str.strip(): the text from its first to its last non-whitespace character
LStrip(t) ==
    IF \A x \in 1..Len(t) : IsSpace(t[x]) THEN <<>>
    ELSE SubSeq(t, CHOOSE x \in 1..Len(t) :
                       ~IsSpace(t[x]) /\ \A y \in 1..(x - 1) : IsSpace(t[y]),
                Len(t))

RStrip(t) ==
    IF \A x \in 1..Len(t) : IsSpace(t[x]) THEN <<>>
    ELSE SubSeq(t, 1, CHOOSE x \in 1..Len(t) :
                          ~IsSpace(t[x]) /\ \A y \in (x + 1)..Len(t) : IsSpace(t[y]))

Strip(t) == RStrip(LStrip(t))

\* ftfy.fix_text on the characters of the model: its line-break repair turns
\* "\r\n" and a lone "\r" into "\n"; the other characters are left as they are
FixText(t) ==
    Concat([x \in 1..Len(t) |->
        IF t[x] = "\r" THEN <<"\n">>
        ELSE IF t[x] = "\n" /\ x > 1 /\ t[x - 1] = "\r" THEN <<>>
        ELSE <<t[x]>>])

\* the backslash escaped as well
TEXT_REPLACEMENTS_Backslash(c) ==
    CASE c = "["  -> <<"\\", "[">>
      [] c = "]"  -> <<"\\", "]">>
      [] c = "\n" -> <<"\\", "n">>
      [] c = "\r" -> <<"\\", "r">>
      [] c = "\t" -> <<"\\", "t">>
      [] c = "\\" -> <<"\\", "\\">>
      [] OTHER    -> <<c>>

TEXT_REPLACEMENTS(c) ==
    CASE c = "["  -> <<"\\", "[">>
      [] c = "]"  -> <<"\\", "]">>
      [] c = "\n" -> <<"\\", "n">>
      [] c = "\r" -> <<"\\", "r">>
      [] c = "\t" -> <<"\\", "t">>
      [] OTHER    -> <<c>>

\* text_replacement_pattern.sub: every match replaced, left to right
Escape(t) == Concat([x \in 1..Len(t) |-> TEXT_REPLACEMENTS(t[x])])

\* text[:n] for any integer n
SliceTo(t, n) ==
    IF n >= 0 THEN SubSeq(t, 1, Min2(n, Len(t)))
    ELSE SubSeq(t, 1, Max2(0, Len(t) + n))

\* text[-n:] for any integer n (text[-0:] is the whole text)
SliceFromEnd(t, n) ==
    IF n > 0 THEN SubSeq(t, Max2(1, Len(t) - n + 1), Len(t))
    ELSE SubSeq(t, Min2(-n, Len(t)) + 1, Len(t))

LastSpace(t) ==
    IF \E n \in 1..Len(t) : t[n] = " "
    THEN CHOOSE n \in 1..Len(t) : t[n] = " " /\ \A m \in (n + 1)..Len(t) : t[m] # " "
    ELSE 0

FirstSpace(t) ==
    IF \E n \in 1..Len(t) : t[n] = " "
    THEN CHOOSE n \in 1..Len(t) : t[n] = " " /\ \A m \in 1..(n - 1) : t[m] # " "
    ELSE 0

\* t.rsplit(" ", 1)[0]
RSplitHead(t) == IF LastSpace(t) = 0 THEN t ELSE SubSeq(t, 1, LastSpace(t) - 1)

\* t.split(" ", 1)[-1]
SplitTail(t) == IF FirstSpace(t) = 0 THEN t ELSE SubSeq(t, FirstSpace(t) + 1, Len(t))

\* head and tail of maxlen // 2 characters: the " ... " is not budgeted
_cap_split_string_NoMargin(text, maxlen) ==
    IF Len(text) <= maxlen THEN text
    ELSE LET head_length == maxlen \div 2
             tail_length == head_length
             head == IF RSplitHead(SliceTo(text, head_length)) # <<>>
                     THEN RSplitHead(SliceTo(text, head_length))
                     ELSE SliceTo(text, head_length)
             tail == IF SplitTail(SliceFromEnd(text, tail_length)) # <<>>
                     THEN SplitTail(SliceFromEnd(text, tail_length))
                     ELSE SliceFromEnd(text, tail_length)
         IN  head \o <<" ", ".", ".", ".", " ">> \o tail

_cap_split_string(text, maxlen) ==
    IF Len(text) <= maxlen THEN text
    ELSE LET head_length == (maxlen \div 2) - 3
             tail_length == head_length
             head == IF RSplitHead(SliceTo(text, head_length)) # <<>>
                     THEN RSplitHead(SliceTo(text, head_length))
                     ELSE SliceTo(text, head_length)
             tail == IF SplitTail(SliceFromEnd(text, tail_length)) # <<>>
                     THEN SplitTail(SliceFromEnd(text, tail_length))
                     ELSE SliceFromEnd(text, tail_length)
         IN  head \o <<" ", ".", ".", ".", " ">> \o tail

\* the strip left out
_cleanup_element_text_NoStrip(element_text) ==
    _cap_split_string(Escape(FixText(element_text)), MAX_TEXT_ELEMENT_LENGTH)

\* the cap applied before the escaping
_cleanup_element_text_CapFirst(element_text) ==
    Escape(_cap_split_string(Strip(FixText(element_text)), MAX_TEXT_ELEMENT_LENGTH))

_cleanup_element_text(element_text) ==
    _cap_split_string(Escape(Strip(FixText(element_text))), MAX_TEXT_ELEMENT_LENGTH)

----------------------------------------------------------------------------
(* Data model: BoundingBox, TextElement, ImageElement, PageReport *)

BoundingBox(x0, y0, x1, y1) == [x0 |-> x0, y0 |-> y0, x1 |-> x1, y1 |-> y1]

TextElement(text, x, y) == [text |-> text, x |-> x, y |-> y]

\* a name is a sequence of name pieces, so that merged names can be joined
ImageElement(name, bbox) == [name |-> name, bbox |-> bbox]

PageReport(mediabox, texts, imgs) ==
    [mediabox |-> mediabox, text_elements |-> texts, image_elements |-> imgs]

----------------------------------------------------------------------------
(* Spatial merger: _merge_image_elements.  Indices are 1-based here. *)

DefaultTolerance == 1

RECURSIVE FindRoot(_, _)
FindRoot(p, a) == IF p[a] = a THEN a ELSE FindRoot(p, p[a])

RECURSIVE Compress(_, _, _)
Compress(p, a, root) ==
    IF p[a] = a THEN p ELSE Compress([p EXCEPT ![a] = root], p[a], root)

\* find(i): the root, and the parent array after path compression
find(p, a) == [root |-> FindRoot(p, a), parent |-> Compress(p, a, FindRoot(p, a))]

union(p, a, b) ==
    LET fi == find(p, a)
        fj == find(fi.parent, b)
    IN  IF fi.root # fj.root
        THEN [fj.parent EXCEPT ![fi.root] = fj.root]
        ELSE fj.parent

bboxes_overlap_Strict(b1, b2, tol) ==
    LET h_dist == Max2(0, Max2(b1.x0, b2.x0) - Min2(b1.x1, b2.x1))
        v_dist == Max2(0, Max2(b1.y0, b2.y0) - Min2(b1.y1, b2.y1))
    IN  h_dist < tol /\ v_dist < tol

bboxes_overlap(b1, b2, tol) ==
    LET h_dist == Max2(0, Max2(b1.x0, b2.x0) - Min2(b1.x1, b2.x1))
        v_dist == Max2(0, Max2(b1.y0, b2.y0) - Min2(b1.y1, b2.y1))
    IN  h_dist <= tol /\ v_dist <= tol

\* only images next to each other in the list are compared
UnionPair_Adjacent(imgs, tol, p, a, b) ==
    IF b = a + 1 /\ bboxes_overlap(imgs[a].bbox, imgs[b].bbox, tol)
    THEN union(p, a, b) ELSE p

\* one iteration of the double loop: the body for the pair (a, b)
UnionPair(imgs, tol, p, a, b) ==
    IF bboxes_overlap(imgs[a].bbox, imgs[b].bbox, tol) THEN union(p, a, b) ELSE p

\* the pair after (a, b) in "for i in range(n): for j in range(i + 1, n)"
NextPair(a, b, n) == IF b < n THEN <<a, b + 1>> ELSE <<a + 1, a + 2>>

RECURSIVE UnionLoop(_, _, _, _, _)
UnionLoop(imgs, tol, p, a, b) ==
    IF b > Len(imgs) THEN p
    ELSE UnionLoop(imgs, tol, UnionPair(imgs, tol, p, a, b),
                   NextPair(a, b, Len(imgs))[1], NextPair(a, b, Len(imgs))[2])

\* groups.setdefault(root, []).append(a); a dict keeps insertion order
SetDefaultAppend(groups, root, a) ==
    IF \E g \in 1..Len(groups) : groups[g].root = root
    THEN [g \in 1..Len(groups) |->
            IF groups[g].root = root
            THEN [groups[g] EXCEPT !.indices = Append(@, a)]
            ELSE groups[g]]
    ELSE Append(groups, [root |-> root, indices |-> <<a>>])

RECURSIVE GroupLoop(_, _, _, _)
GroupLoop(p, a, n, groups) ==
    IF a > n THEN groups
    ELSE GroupLoop(find(p, a).parent, a + 1, n,
                   SetDefaultAppend(groups, find(p, a).root, a))

\* the merged name grows but the box stays that of the first member
RECURSIVE MergeGroup_FirstBox(_, _, _)
MergeGroup_FirstBox(imgs, indices, acc) ==
    IF indices = <<>> THEN acc
    ELSE MergeGroup_FirstBox(imgs, Tail(indices),
             ImageElement(acc.name \o <<"+">> \o imgs[Head(indices)].name, acc.bbox))

RECURSIVE MergeGroup(_, _, _)
MergeGroup(imgs, indices, acc) ==
    IF indices = <<>> THEN acc
    ELSE LET bbox == imgs[Head(indices)].bbox
         IN  MergeGroup(imgs, Tail(indices),
                 ImageElement(acc.name \o <<"+">> \o imgs[Head(indices)].name,
                     BoundingBox(Min2(acc.bbox.x0, bbox.x0),
                                 Min2(acc.bbox.y0, bbox.y0),
                                 Max2(acc.bbox.x1, bbox.x1),
                                 Max2(acc.bbox.y1, bbox.y1))))

MergedImages(imgs, p) ==
    LET groups == GroupLoop(p, 1, Len(imgs), <<>>)
    IN  [g \in 1..Len(groups) |->
            MergeGroup(imgs, Tail(groups[g].indices),
                       imgs[Head(groups[g].indices)])]

_merge_image_elements(imgs, tol) ==
    MergedImages(imgs, UnionLoop(imgs, tol, [a \in 1..Len(imgs) |-> a], 1, 2))

----------------------------------------------------------------------------
(* Affine matrices: _transform_point and _mult.  A matrix is the sequence  *)
(* <<a, b, c, d, e, f>> (m[0]..m[5] of the code are m[1]..m[6] here).  The *)
(* entries are floats with integer values; every product and sum is        *)
(* rounded to FloatBits significant bits, to nearest, a tie to even, as    *)
(* binary floating point does                                              *)

Abs(v) == IF v < 0 THEN -v ELSE v

RECURSIVE Pow2(_)
Pow2(e) == IF e = 0 THEN 1 ELSE 2 * Pow2(e - 1)

RECURSIVE BitLen(_)
BitLen(v) == IF v = 0 THEN 0 ELSE 1 + BitLen(v \div 2)

\* the float nearest to the integer v
FRound(v) ==
    IF Abs(v) < Pow2(FloatBits) THEN v
    ELSE LET u == Pow2(BitLen(Abs(v)) - FloatBits)
             q == Abs(v) \div u
             r == Abs(v) % u
             up == 2 * r > u \/ (2 * r = u /\ q % 2 = 1)
         IN  (IF v < 0 THEN -1 ELSE 1) * (IF up THEN q + 1 ELSE q) * u

\* float multiplication and addition
FMul(a, b) == FRound(a * b)

FAdd(a, b) == FRound(a + b)

_transform_point(x, y, m) ==
    <<FAdd(FAdd(FMul(m[1], x), FMul(m[3], y)), m[5]),
      FAdd(FAdd(FMul(m[2], x), FMul(m[4], y)), m[6])>>

\* the two factors taken in the other order
_mult_Swapped(m, n) ==
    <<FAdd(FMul(n[1], m[1]), FMul(n[2], m[3])),
      FAdd(FMul(n[1], m[2]), FMul(n[2], m[4])),
      FAdd(FMul(n[3], m[1]), FMul(n[4], m[3])),
      FAdd(FMul(n[3], m[2]), FMul(n[4], m[4])),
      FAdd(FAdd(FMul(n[5], m[1]), FMul(n[6], m[3])), m[5]),
      FAdd(FAdd(FMul(n[5], m[2]), FMul(n[6], m[4])), m[6])>>

_mult(m, n) ==
    <<FAdd(FMul(m[1], n[1]), FMul(m[2], n[3])),
      FAdd(FMul(m[1], n[2]), FMul(m[2], n[4])),
      FAdd(FMul(m[3], n[1]), FMul(m[4], n[3])),
      FAdd(FMul(m[3], n[2]), FMul(m[4], n[4])),
      FAdd(FAdd(FMul(m[5], n[1]), FMul(m[6], n[3])), n[5]),
      FAdd(FAdd(FMul(m[5], n[2]), FMul(m[6], n[4])), n[6])>>

----------------------------------------------------------------------------
(* Report linearizer: _linearize_pdf_report *)

Header_FromOrigin(rep) ==
    <<"P", "a", "g", "e", " ", "d", "i", "m", "e", "n", "s", "i", "o", "n", "s", ":", " ">>
    \o Fmt1(rep.mediabox.x0) \o <<"x">> \o Fmt1(rep.mediabox.y0) \o <<"\n">>

Header(rep) ==
    <<"P", "a", "g", "e", " ", "d", "i", "m", "e", "n", "s", "i", "o", "n", "s", ":", " ">>
    \o Fmt1(rep.mediabox.x1) \o <<"x">> \o Fmt1(rep.mediabox.y1) \o <<"\n">>

ImageLine(e) ==
    <<"[", "I", "m", "a", "g", "e", " ">>
    \o Fmt0(e.bbox.x0) \o <<"x">> \o Fmt0(e.bbox.y0)
    \o <<" ", "t", "o", " ">>
    \o Fmt0(e.bbox.x1) \o <<"x">> \o Fmt0(e.bbox.y1) \o <<"]", "\n">>

TextLine(e) ==
    <<"[">> \o Fmt0(e.x) \o <<"x">> \o Fmt0(e.y) \o <<"]">>
    \o _cleanup_element_text(e.text) \o <<"\n">>

\* len(element.text.strip()) == 0
IsBlank_NoStrip(e) == Len(e.text) = 0

IsBlank(e) == Len(Strip(e.text)) = 0

\* an entry of image_strings / text_strings / all_elements; id stands for
\* id(elem): the elements are distinct live objects, one per list position
ImageEntry(imgs, n) ==
    [kind |-> "image", elem |-> imgs[n], id |-> <<"image", n>>,
     s |-> ImageLine(imgs[n]), position |-> <<imgs[n].bbox.x0, imgs[n].bbox.y0>>]

TextEntry(texts, n) ==
    [kind |-> "text", elem |-> texts[n], id |-> <<"text", n>>,
     s |-> TextLine(texts[n]), position |-> <<texts[n].x, texts[n].y>>]

RECURSIVE TextEntries(_, _)
TextEntries(texts, n) ==
    IF n > Len(texts) THEN <<>>
    ELSE IF IsBlank(texts[n]) THEN TextEntries(texts, n + 1)
    ELSE <<TextEntry(texts, n)>> \o TextEntries(texts, n + 1)

AllElements(rep, imgs) ==
    [n \in 1..Len(imgs) |-> ImageEntry(imgs, n)] \o TextEntries(rep.text_elements, 1)

Lines(entries) == [n \in 1..Len(entries) |-> entries[n].s]

TotalLength(rep, imgs) == Len(Header(rep)) + SumLen(Lines(AllElements(rep, imgs)))

\* min(seq, key=...) and max(seq, key=...) return the FIRST element with the
\* extreme key; keys is the sequence of the elements' keys
FirstMin(keys) ==
    CHOOSE n \in 1..Len(keys) :
        /\ \A m \in 1..Len(keys) : keys[n] <= keys[m]
        /\ \A m \in 1..(n - 1) : keys[m] # keys[n]

FirstMax_AsMin(keys) == FirstMin(keys)

\* the last element with the largest key
FirstMax_Last(keys) ==
    CHOOSE n \in 1..Len(keys) :
        /\ \A m \in 1..Len(keys) : keys[n] >= keys[m]
        /\ \A m \in (n + 1)..Len(keys) : keys[m] # keys[n]

FirstMax(keys) ==
    CHOOSE n \in 1..Len(keys) :
        /\ \A m \in 1..Len(keys) : keys[n] >= keys[m]
        /\ \A m \in 1..(n - 1) : keys[m] # keys[n]

ImageEdges(imgs) ==
    IF imgs # <<>>
    THEN {imgs[FirstMin([n \in 1..Len(imgs) |-> imgs[n].bbox.x0])],
          imgs[FirstMax([n \in 1..Len(imgs) |-> imgs[n].bbox.x1])],
          imgs[FirstMin([n \in 1..Len(imgs) |-> imgs[n].bbox.y0])],
          imgs[FirstMax([n \in 1..Len(imgs) |-> imgs[n].bbox.y1])]}
    ELSE {}

\* [e for e in report.text_elements if len(e.text.strip()) > 0]
RECURSIVE NonBlank(_)
NonBlank(texts) ==
    IF texts = <<>> THEN <<>>
    ELSE IF IsBlank(Head(texts)) THEN NonBlank(Tail(texts))
    ELSE <<Head(texts)>> \o NonBlank(Tail(texts))

TextEdgesOf(nb) ==
    {nb[FirstMin([n \in 1..Len(nb) |-> nb[n].x])],
     nb[FirstMax([n \in 1..Len(nb) |-> nb[n].x])],
     nb[FirstMin([n \in 1..Len(nb) |-> nb[n].y])],
     nb[FirstMax([n \in 1..Len(nb) |-> nb[n].y])]}

TextEdges(texts) ==
    IF texts # <<>> /\ NonBlank(texts) # <<>> THEN TextEdgesOf(NonBlank(texts)) ELSE {}

\* edge_elements: a set of element VALUES (frozen dataclasses hash by value)
EdgeElements(rep, imgs) == ImageEdges(imgs) \cup TextEdges(rep.text_elements)

\* "if elem in edge_elements and id(elem) not in selected_element_ids"
RECURSIVE EdgeLoop(_, _, _, _)
EdgeLoop(entries, edges, selected, ids) ==
    IF entries = <<>> THEN selected
    ELSE IF Head(entries).elem \in edges /\ Head(entries).id \notin ids
         THEN EdgeLoop(Tail(entries), edges, Append(selected, Head(entries)),
                       ids \cup {Head(entries).id})
         ELSE EdgeLoop(Tail(entries), edges, selected, ids)

SelectedEdges(rep, imgs) == EdgeLoop(AllElements(rep, imgs), EdgeElements(rep, imgs), <<>>, {})

Ids(entries) == { entries[n].id : n \in 1..Len(entries) }

\* the pool left for the fill step, before the shuffle
RECURSIVE WithoutIds(_, _)
WithoutIds(entries, ids) ==
    IF entries = <<>> THEN <<>>
    ELSE IF Head(entries).id \in ids THEN WithoutIds(Tail(entries), ids)
    ELSE <<Head(entries)>> \o WithoutIds(Tail(entries), ids)

Remaining(rep, imgs) == WithoutIds(AllElements(rep, imgs), Ids(SelectedEdges(rep, imgs)))

\* "if max_length < 20: return result"
HeaderOnly_Typo(maxlen) == maxlen < 2

HeaderOnly(maxlen) == maxlen < 20

\* "if current_length + len(s) > max_length: break"
Overflows_NoLine(cur, s, maxlen) == cur > maxlen

Overflows_IgnoreCurrent(cur, s, maxlen) == Len(s) > maxlen

Overflows(cur, s, maxlen) == cur + Len(s) > maxlen

\* random.shuffle: any permutation of the list
Shuffles(s) == { [n \in 1..Len(s) |-> s[p[n]]] : p \in Perms(Len(s)) }

PosLE(p, q) == p[1] < q[1] \/ (p[1] = q[1] /\ p[2] <= q[2])

\* list.sort(key=position) is stable: the entry at index a goes behind the
\* entries with a smaller key and the entries with an equal key before it
SortRank(s, a) ==
    Cardinality({ b \in 1..Len(s) :
        \/ ~PosLE(s[a].position, s[b].position)
        \/ (s[b].position = s[a].position /\ b < a) }) + 1

SortByPosition_Unsorted(s) == s

SortByPosition(s) ==
    [r \in 1..Len(s) |-> s[CHOOSE a \in 1..Len(s) : SortRank(s, a) = r]]

\* the result of the branch "total_length <= max_length"
FitResult_Sorted(rep, imgs) ==
    Header(rep) \o Flatten(Lines(SortByPosition(AllElements(rep, imgs))))

FitResult(rep, imgs) == Header(rep) \o Flatten(Lines(AllElements(rep, imgs)))

----------------------------------------------------------------------------
(* Inputs of the model (coordinates in half points) *)

MediaBoxes == {BoundingBox(0, 0, 1224, 1584), BoundingBox(0, 0, 1, 3)}

ImA == ImageElement(<<"ImA">>, BoundingBox(0, 0, 4, 4))

\* horizontal gap to ImA exactly 1 (0.5 point)
ImB == ImageElement(<<"ImB">>, BoundingBox(5, 0, 9, 4))

\* horizontal gap to ImB 2, to ImA 7
ImC == ImageElement(<<"ImC">>, BoundingBox(11, 0, 15, 4))

\* vertical gap to ImA 3; to ImB horizontal 1 and vertical 3
ImD == ImageElement(<<"ImD">>, BoundingBox(0, 7, 4, 10))

\* corners given unordered
ImE == ImageElement(<<"ImE">>, BoundingBox(19, 9, 17, 6))

ImM == ImageElement(<<"ImM">>, BoundingBox(20, 20, 24, 24))

ImZ == ImageElement(<<"ImZ">>, BoundingBox(200, 400, 204, 404))

ImagePool == {ImA, ImB, ImM, ImZ}

MergePool == {ImA, ImB, ImC, ImD, ImE}

Tolerances == {0, 1, 2, 3}

TxtHello == TextElement(<<"H", "e", "l", "l", "o">>, 200, 400)

TxtBlank == TextElement(<<" ", "\t">>, 0, 0)

TxtEsc == TextElement(<<" ", "[", "a", "]", "\r", "b">>, 5, 3)

TxtMid == TextElement(<<"x", "y">>, 100, 100)

TextPool == {TxtHello, TxtBlank, TxtEsc, TxtMid}

\* lists holding the same text element (same text, same position) twice
RepeatedTexts ==
    {<<TxtEsc, TxtEsc>>, <<TxtHello, TxtMid, TxtMid>>, <<TxtMid, TxtEsc, TxtMid>>,
     <<TxtMid, TxtMid, TxtMid, TxtMid, TxtMid>>}

TextLists == InjSeqsUpTo(TextPool, MaxTexts) \cup RepeatedTexts

ImageLists == InjSeqsUpTo(ImagePool, MaxImages)

MaxLengths == {5, 20, 80, 115, 4000}

----------------------------------------------------------------------------
(* The linearizer as a state machine: one call of _linearize_pdf_report *)

Init ==
    /\ report \in { PageReport(mb, ts, is) :
                      mb \in MediaBoxes,
                      ts \in TextLists,
                      is \in ImageLists }
    /\ max_length \in MaxLengths
    /\ tolerance = DefaultTolerance
    /\ pc = "start"
    /\ parent = <<>>
    /\ i = 0
    /\ j = 0
    /\ images = <<>>
    /\ selected_elements = <<>>
    /\ remaining_elements = <<>>
    /\ current_length = 0
    /\ k = 0
    /\ result = <<>>
    /\ ops = <<>>
    /\ xobjects = <<>>
    /\ text_elements = <<>>
    /\ image_elements = <<>>
    /\ call = <<>>

\* max_length < 20: only the header
LinearizeHeaderOnly ==
    /\ pc = "start"
    /\ HeaderOnly(max_length)
    /\ result' = Header(report)
    /\ pc' = "done"
    /\ UNCHANGED <<pdf_vars, report, max_length, tolerance, parent, i, j, images,
                   selected_elements, remaining_elements, current_length, k>>

\* the lines are written in the order of the elements or in the reverse
\* order, as the call happens to take them
LinearizeAll_EitherOrder ==
    /\ pc = "start"
    /\ ~HeaderOnly(max_length)
    /\ LET imgs == _merge_image_elements(report.image_elements, tolerance)
           all == AllElements(report, imgs)
           back == [n \in 1..Len(all) |-> all[Len(all) + 1 - n]]
       IN  /\ TotalLength(report, imgs) <= max_length
           /\ images' = imgs
           /\ result' \in {FitResult(report, imgs),
                            Header(report) \o Flatten(Lines(back))}
    /\ pc' = "done"
    /\ UNCHANGED <<pdf_vars, report, max_length, tolerance, parent, i, j,
                   selected_elements, remaining_elements, current_length, k>>

\* total_length <= max_length: every line, images first, then texts
LinearizeAll ==
    /\ pc = "start"
    /\ ~HeaderOnly(max_length)
    /\ LET imgs == _merge_image_elements(report.image_elements, tolerance)
       IN  /\ TotalLength(report, imgs) <= max_length
           /\ images' = imgs
           /\ result' = FitResult(report, imgs)
    /\ pc' = "done"
    /\ UNCHANGED <<pdf_vars, report, max_length, tolerance, parent, i, j,
                   selected_elements, remaining_elements, current_length, k>>

\* the merged images are written back into the caller's list
LinearizeEdges_MergeInPlace ==
    /\ pc = "start"
    /\ ~HeaderOnly(max_length)
    /\ LET imgs == _merge_image_elements(report.image_elements, tolerance)
       IN  /\ TotalLength(report, imgs) > max_length
           /\ images' = imgs
           /\ report' = [report EXCEPT !.image_elements = imgs]
           /\ selected_elements' = SelectedEdges(report, imgs)
           /\ current_length' =
                Len(Header(report)) + SumLen(Lines(SelectedEdges(report, imgs)))
           /\ remaining_elements' \in Shuffles(Remaining(report, imgs))
    /\ result' = Header(report)
    /\ k' = 1
    /\ pc' = "fill"
    /\ UNCHANGED <<pdf_vars, max_length, tolerance, parent, i, j>>

\* budget fit: the edge elements are selected, the rest is shuffled
LinearizeEdges ==
    /\ pc = "start"
    /\ ~HeaderOnly(max_length)
    /\ LET imgs == _merge_image_elements(report.image_elements, tolerance)
       IN  /\ TotalLength(report, imgs) > max_length
           /\ images' = imgs
           /\ selected_elements' = SelectedEdges(report, imgs)
           /\ current_length' =
                Len(Header(report)) + SumLen(Lines(SelectedEdges(report, imgs)))
           /\ remaining_elements' \in Shuffles(Remaining(report, imgs))
    /\ result' = Header(report)
    /\ k' = 1
    /\ pc' = "fill"
    /\ UNCHANGED <<pdf_vars, report, max_length, tolerance, parent, i, j>>

\* one iteration of the fill loop that accepts its candidate
FillAccept ==
    /\ pc = "fill"
    /\ k <= Len(remaining_elements)
    /\ ~Overflows(current_length, remaining_elements[k].s, max_length)
    /\ selected_elements' = Append(selected_elements, remaining_elements[k])
    /\ current_length' = current_length + Len(remaining_elements[k].s)
    /\ k' = k + 1
    /\ UNCHANGED <<pdf_vars, report, max_length, tolerance, pc, parent, i, j, images,
                   remaining_elements, result>>

\* "continue" in place of "break": an overflowing candidate is skipped
FillFinish_Continue ==
    /\ pc = "fill"
    /\ \/ /\ k > Len(remaining_elements)
          /\ selected_elements' = SortByPosition(selected_elements)
          /\ result' = result \o Flatten(Lines(SortByPosition(selected_elements)))
          /\ pc' = "done"
          /\ k' = k
       \/ /\ k <= Len(remaining_elements)
          /\ Overflows(current_length, remaining_elements[k].s, max_length)
          /\ k' = k + 1
          /\ UNCHANGED <<pdf_vars, selected_elements, result, pc>>
    /\ UNCHANGED <<pdf_vars, report, max_length, tolerance, parent, i, j, images,
                   remaining_elements, current_length>>

\* the loop ends (exhausted, or break on overflow); sort and build the result
FillFinish ==
    /\ pc = "fill"
    /\ \/ k > Len(remaining_elements)
       \/ /\ k <= Len(remaining_elements)
          /\ Overflows(current_length, remaining_elements[k].s, max_length)
    /\ selected_elements' = SortByPosition(selected_elements)
    /\ result' = result \o Flatten(Lines(SortByPosition(selected_elements)))
    /\ pc' = "done"
    /\ UNCHANGED <<pdf_vars, report, max_length, tolerance, parent, i, j, images,
                   remaining_elements, current_length, k>>

Next ==
    \/ LinearizeHeaderOnly
    \/ LinearizeAll
    \/ LinearizeEdges
    \/ FillAccept
    \/ FillFinish

Spec == Init /\ [][Next]_vars

----------------------------------------------------------------------------
(* Two calls of _linearize_pdf_report with the same report and the same    *)
(* max_length, one after the other: call holds what the first call         *)
(* returned and selected, the other variables are those of the second call *)

\* three texts at one position: the first is every text extreme
TiedTexts ==
    <<TxtMid, TextElement(<<"u", "v">>, 100, 100), TextElement(<<"w">>, 100, 100)>>

\* same x0 as ImA, and no other extreme next to ImA and ImZ
ImQ == ImageElement(<<"ImQ">>, BoundingBox(0, 7, 3, 10))

\* same x1 as ImZ, and no other extreme next to ImA and ImZ
ImR == ImageElement(<<"ImR">>, BoundingBox(201, 300, 204, 304))

\* image lists with two images at the same extreme value, in both orders
TiedImages ==
    {<<ImA, ImQ, ImZ>>, <<ImQ, ImA, ImZ>>, <<ImA, ImZ, ImR>>, <<ImA, ImR, ImZ>>}

InitRuns ==
    /\ report \in { PageReport(BoundingBox(0, 0, 1224, 1584), ts, is) :
                      ts \in TextLists \cup {TiedTexts},
                      is \in ImageLists \cup TiedImages }
    /\ max_length \in MaxLengths
    /\ tolerance = DefaultTolerance
    /\ pc = "start"
    /\ parent = <<>>
    /\ i = 0
    /\ j = 0
    /\ images = <<>>
    /\ selected_elements = <<>>
    /\ remaining_elements = <<>>
    /\ current_length = 0
    /\ k = 0
    /\ result = <<>>
    /\ ops = <<>>
    /\ xobjects = <<>>
    /\ text_elements = <<>>
    /\ image_elements = <<>>
    /\ call = [run |-> 1]

\* the first call has returned; the second call starts on the same arguments
SecondCall ==
    /\ pc = "done"
    /\ call.run = 1
    /\ call' = [run |-> 2, result |-> result,
                selected_elements |-> selected_elements,
                remaining_elements |-> remaining_elements]
    /\ pc' = "start"
    /\ images' = <<>>
    /\ selected_elements' = <<>>
    /\ remaining_elements' = <<>>
    /\ current_length' = 0
    /\ k' = 0
    /\ result' = <<>>
    /\ UNCHANGED <<ops, xobjects, text_elements, image_elements, report, max_length,
                   tolerance, parent, i, j>>

NextRuns ==
    \/ Next
    \/ SecondCall

SpecRuns == InitRuns /\ [][NextRuns]_vars

----------------------------------------------------------------------------
(* The merger as a state machine: one call of _merge_image_elements, the   *)
(* union loop taken one pair (i, j) at a time                              *)

InitMerge ==
    /\ report \in { PageReport(BoundingBox(0, 0, 1224, 1584), <<>>, is) :
                      is \in SeqsUpTo(MergePool, MaxImages) }
    /\ tolerance \in Tolerances
    /\ max_length = 0
    /\ pc = "union"
    /\ parent = [a \in 1..Len(report.image_elements) |-> a]
    /\ i = 1
    /\ j = 2
    /\ images = <<>>
    /\ selected_elements = <<>>
    /\ remaining_elements = <<>>
    /\ current_length = 0
    /\ k = 0
    /\ result = <<>>
    /\ ops = <<>>
    /\ xobjects = <<>>
    /\ text_elements = <<>>
    /\ image_elements = <<>>
    /\ call = <<>>

\* the body of the double loop for the pair (i, j)
UnionStep ==
    /\ pc = "union"
    /\ j <= Len(report.image_elements)
    /\ parent' = UnionPair(report.image_elements, tolerance, parent, i, j)
    /\ i' = NextPair(i, j, Len(report.image_elements))[1]
    /\ j' = NextPair(i, j, Len(report.image_elements))[2]
    /\ UNCHANGED <<pdf_vars, report, max_length, tolerance, pc, images, selected_elements,
                   remaining_elements, current_length, k, result>>

\* after the double loop: group by root and build the merged elements
GroupStep ==
    /\ pc = "union"
    /\ j > Len(report.image_elements)
    /\ images' = MergedImages(report.image_elements, parent)
    /\ pc' = "merged"
    /\ UNCHANGED <<pdf_vars, report, max_length, tolerance, parent, i, j, selected_elements,
                   remaining_elements, current_length, k, result>>

NextMerge ==
    \/ UnionStep
    \/ GroupStep

SpecMerge == InitMerge /\ [][NextMerge]_vars

\* the stepwise run and the one-shot operator are the same function
MergeStepsAgree ==
    pc = "merged" => images = _merge_image_elements(report.image_elements, tolerance)

----------------------------------------------------------------------------
(* _merge_image_elements applied to a list of images and then to its own   *)
(* output: call holds the input and the output of the first application,    *)
(* the other variables are those of the application that is running         *)

\* inside the envelope of ImB and ImD, and 4 away from each of them in one
\* axis
ImF == ImageElement(<<"ImF">>, BoundingBox(8, 8, 9, 9))

\* the images all have the corners of their boxes in order
InitRemerge ==
    /\ report \in { PageReport(BoundingBox(0, 0, 1224, 1584), <<>>, is) :
                      is \in SeqsUpTo({ImA, ImB, ImC, ImD, ImF}, MaxImages) }
    /\ tolerance \in Tolerances
    /\ max_length = 0
    /\ pc = "union"
    /\ parent = [a \in 1..Len(report.image_elements) |-> a]
    /\ i = 1
    /\ j = 2
    /\ images = <<>>
    /\ selected_elements = <<>>
    /\ remaining_elements = <<>>
    /\ current_length = 0
    /\ k = 0
    /\ result = <<>>
    /\ ops = <<>>
    /\ xobjects = <<>>
    /\ text_elements = <<>>
    /\ image_elements = <<>>
    /\ call = [run |-> 1]

\* the first application has returned: the second is called on its output,
\* with the same tolerance
Remerge ==
    /\ pc = "merged"
    /\ call.run = 1
    /\ call' = [run |-> 2, images |-> report.image_elements, merged |-> images]
    /\ report' = PageReport(report.mediabox, <<>>, images)
    /\ parent' = [a \in 1..Len(images) |-> a]
    /\ i' = 1
    /\ j' = 2
    /\ images' = <<>>
    /\ pc' = "union"
    /\ UNCHANGED <<ops, xobjects, text_elements, image_elements, max_length,
                   tolerance, selected_elements, remaining_elements,
                   current_length, k, result>>

NextRemerge ==
    \/ NextMerge
    \/ Remerge

SpecRemerge == InitRemerge /\ [][NextRemerge]_vars

----------------------------------------------------------------------------
(* Two invocations running concurrently in one process, each a call of     *)
(* _linearize_pdf_report or of _merge_image_elements on arguments of its   *)
(* own.  Every name the two functions assign is a local of the call, so     *)
(* an invocation is a frame of locals: the variables of the model are the   *)
(* frame of the invocation that is running and call is the frame of the     *)
(* suspended one; a thread switch exchanges the two.                        *)

Frame(rep, maxlen, tol, at, p, a, b) ==
    [report |-> rep, max_length |-> maxlen, tolerance |-> tol, pc |-> at,
     parent |-> p, i |-> a, j |-> b, images |-> <<>>, selected_elements |-> <<>>,
     remaining_elements |-> <<>>, current_length |-> 0, k |-> 0, result |-> <<>>]

\* the frames of a call of _linearize_pdf_report at its start
LinearizeFrames ==
    { Frame(PageReport(BoundingBox(0, 0, 1224, 1584), <<TxtEsc, TxtMid, TxtHello>>, is),
            maxlen, DefaultTolerance, "start", <<>>, 0, 0) :
        is \in InjSeqsUpTo({ImA, ImM, ImZ}, MaxImages), maxlen \in {5, 115, 4000} }

\* the frames of a call of _merge_image_elements at its start
MergeFrames ==
    { Frame(PageReport(BoundingBox(0, 0, 1224, 1584), <<>>, is),
            0, tol, "union", [a \in 1..Len(is) |-> a], 1, 2) :
        is \in InjSeqsUpTo({ImA, ImB, ImC, ImD}, MaxImages), tol \in {1, 3} }

\* the frame of the running invocation
RunningFrame ==
    [report |-> report, max_length |-> max_length, tolerance |-> tolerance, pc |-> pc,
     parent |-> parent, i |-> i, j |-> j, images |-> images,
     selected_elements |-> selected_elements,
     remaining_elements |-> remaining_elements,
     current_length |-> current_length, k |-> k, result |-> result]

InitPar ==
    /\ call \in LinearizeFrames \cup MergeFrames
    /\ \E f \in LinearizeFrames \cup MergeFrames :
          /\ report = f.report
          /\ max_length = f.max_length
          /\ tolerance = f.tolerance
          /\ pc = f.pc
          /\ parent = f.parent
          /\ i = f.i
          /\ j = f.j
    /\ images = <<>>
    /\ selected_elements = <<>>
    /\ remaining_elements = <<>>
    /\ current_length = 0
    /\ k = 0
    /\ result = <<>>
    /\ ops = <<>>
    /\ xobjects = <<>>
    /\ text_elements = <<>>
    /\ image_elements = <<>>

\* the selection list is one module-level list: a switch leaves it in place
Switch_SharedSelection ==
    /\ call' = [RunningFrame EXCEPT !.selected_elements = call.selected_elements]
    /\ report' = call.report
    /\ max_length' = call.max_length
    /\ tolerance' = call.tolerance
    /\ pc' = call.pc
    /\ parent' = call.parent
    /\ i' = call.i
    /\ j' = call.j
    /\ images' = call.images
    /\ selected_elements' = selected_elements
    /\ remaining_elements' = call.remaining_elements
    /\ current_length' = call.current_length
    /\ k' = call.k
    /\ result' = call.result
    /\ UNCHANGED <<ops, xobjects, text_elements, image_elements>>

\* the interpreter suspends the running invocation and resumes the other
Switch ==
    /\ call' = RunningFrame
    /\ report' = call.report
    /\ max_length' = call.max_length
    /\ tolerance' = call.tolerance
    /\ pc' = call.pc
    /\ parent' = call.parent
    /\ i' = call.i
    /\ j' = call.j
    /\ images' = call.images
    /\ selected_elements' = call.selected_elements
    /\ remaining_elements' = call.remaining_elements
    /\ current_length' = call.current_length
    /\ k' = call.k
    /\ result' = call.result
    /\ UNCHANGED <<ops, xobjects, text_elements, image_elements>>

NextPar ==
    \/ Next
    \/ NextMerge
    \/ Switch

SpecPar == InitPar /\ [][NextPar]_vars

----------------------------------------------------------------------------
(* The text sanitizer as a state machine: _cleanup_element_text applied to *)
(* a text and then to its own result, and _cap_split_string applied to the *)
(* text with a cap of its own                                              *)

Rep(c, len) == [x \in 1..len |-> c]

TextChars == {"a", " ", "[", "]", "\r", "\t"}

PadLengths == {0, 9, 244, 251}

\* the last tail: a bracket 122 characters before the end of the text
TextTails == {<<>>, <<" ", "y", " ">>, <<"\n", "z">>, <<"[">> \o Rep("x", 121)}

\* a text: a freely chosen start, a run of "x", a tail
Texts ==
    { core \o Rep("x", pad) \o tail :
        core \in SeqsUpTo(TextChars, MaxCore), pad \in PadLengths, tail \in TextTails }

CapLengths == {2, 6, 7, 8, 9, 11, 20, 250}

InitText ==
    /\ call \in { [text |-> t] : t \in Texts }
    /\ pc = "text"
    /\ max_length = 0
    /\ result = <<>>
    /\ report = PageReport(BoundingBox(0, 0, 1224, 1584), <<>>, <<>>)
    /\ tolerance = DefaultTolerance
    /\ parent = <<>>
    /\ i = 0
    /\ j = 0
    /\ images = <<>>
    /\ selected_elements = <<>>
    /\ remaining_elements = <<>>
    /\ current_length = 0
    /\ k = 0
    /\ ops = <<>>
    /\ xobjects = <<>>
    /\ text_elements = <<>>
    /\ image_elements = <<>>

\* _cleanup_element_text(text), and then _cleanup_element_text of the result
Cleanup ==
    /\ pc \in {"text", "cleaned"}
    /\ result' = _cleanup_element_text(IF pc = "text" THEN call.text ELSE result)
    /\ pc' = IF pc = "text" THEN "cleaned" ELSE "recleaned"
    /\ UNCHANGED <<pdf_vars, report, max_length, tolerance, parent, i, j, images,
                   selected_elements, remaining_elements, current_length, k>>

\* _cap_split_string(text, max_length)
CapSplit ==
    /\ pc = "text"
    /\ \E cap \in CapLengths :
          /\ max_length' = cap
          /\ result' = _cap_split_string(call.text, cap)
    /\ pc' = "capped"
    /\ UNCHANGED <<pdf_vars, report, tolerance, parent, i, j, images,
                   selected_elements, remaining_elements, current_length, k>>

NextText ==
    \/ Cleanup
    \/ CapSplit

SpecText == InitText /\ [][NextText]_vars

----------------------------------------------------------------------------
(* The matrix helpers as a state machine: a point is transformed by the    *)
(* composed matrix _mult(m, n), and then by m and by n in turn             *)

\* the linear parts: identity, scalings, a flip, quarter and eighth turns
\* (the eighth turn scaled by the square root of 2), a shear
LinearParts ==
    {<<1, 0, 0, 1>>, <<3, 0, 0, 3>>, <<2, 0, 0, 1>>, <<1, 0, 0, -1>>,
     <<0, 1, -1, 0>>, <<1, 1, -1, 1>>, <<1, 0, 2, 1>>}

Translations == {<<0, 0>>, <<1, 0>>, <<2, 5>>}

Matrices == { l \o t : l \in LinearParts, t \in Translations }

Points == {<<0, 0>>, <<1, 0>>, <<1, 1>>, <<3, 2>>, <<7, 5>>}

InitMatrix ==
    /\ call \in { [m |-> m, n |-> n, x |-> p[1], y |-> p[2]] :
                    m \in Matrices, n \in Matrices, p \in Points }
    /\ pc = "args"
    /\ result = <<>>
    /\ max_length = 0
    /\ report = PageReport(BoundingBox(0, 0, 1224, 1584), <<>>, <<>>)
    /\ tolerance = DefaultTolerance
    /\ parent = <<>>
    /\ i = 0
    /\ j = 0
    /\ images = <<>>
    /\ selected_elements = <<>>
    /\ remaining_elements = <<>>
    /\ current_length = 0
    /\ k = 0
    /\ ops = <<>>
    /\ xobjects = <<>>
    /\ text_elements = <<>>
    /\ image_elements = <<>>

\* _transform_point(x, y, _mult(m, n))
TransformComposed ==
    /\ pc = "args"
    /\ result' = <<_transform_point(call.x, call.y, _mult(call.m, call.n))>>
    /\ pc' = "composed"
    /\ UNCHANGED <<pdf_vars, report, max_length, tolerance, parent, i, j, images,
                   selected_elements, remaining_elements, current_length, k>>

\* _transform_point(*_transform_point(x, y, m), n)
TransformChained ==
    /\ pc = "composed"
    /\ LET p == _transform_point(call.x, call.y, call.m)
       IN  result' = Append(result, _transform_point(p[1], p[2], call.n))
    /\ pc' = "chained"
    /\ UNCHANGED <<pdf_vars, report, max_length, tolerance, parent, i, j, images,
                   selected_elements, remaining_elements, current_length, k>>

NextMatrix ==
    \/ TransformComposed
    \/ TransformChained

SpecMatrix == InitMatrix /\ [][NextMatrix]_vars

----------------------------------------------------------------------------
(* The page extractor as a state machine: one call of _pdf_report.  ops is *)
(* the sequence of callbacks that page.extract_text makes for the page:    *)
(* visitor_text (cb = "text") for a text run and visitor_operand_before    *)
(* (cb = "op") for an operator; k is the next callback.  An XObject is a   *)
(* dictionary, a function from its keys to their values.                   *)

\* the page's /Resources /XObject dictionary: an image, a form, an entry
\* without /Subtype and an empty entry; "/None" is not in it
XObjectDict ==
    [name \in {"/Im1", "/Fm1", "/X0", "/E0"} |->
        CASE name = "/Im1" -> [key \in {"/Subtype", "/Width", "/Height"} |->
                                 IF key = "/Subtype" THEN "/Image" ELSE "8"]
          [] name = "/Fm1" -> [key \in {"/Subtype"} |-> "/Form"]
          [] name = "/X0"  -> [key \in {"/Width"} |-> "8"]
          [] name = "/E0"  -> <<>>]

IdentityMatrix == <<1, 0, 0, 1, 0, 0>>

\* a place of the content stream that page.extract_text cannot walk past:
\* it makes no callback there and raises
MalformedOperator == [cb |-> "malformed"]

TextCallback(text, cm, tm) == [cb |-> "text", text |-> text, cm |-> cm, tm |-> tm]

OpCallback(op, args, cm, tm) == [cb |-> "op", op |-> op, args |-> args, cm |-> cm, tm |-> tm]

\* the current transformation matrices of the model: a scaling with an
\* offset, a flip, a quarter turn, an eighth turn (scaled)
ImageCms ==
    {<<2, 0, 0, 2, 3, 1>>, <<2, 0, 0, -2, 1, 5>>, <<0, 2, -2, 0, 4, 1>>,
     <<1, 1, -1, 1, 2, 2>>}

Callbacks ==
    {TextCallback(<<"H", "i">>, <<2, 0, 0, 2, 3, 1>>, <<1, 0, 0, 1, 3, 2>>),
     TextCallback(<<"H", "i">>, IdentityMatrix, <<1, 0, 0, 1, 3, 2>>),
     TextCallback(<<" ">>, IdentityMatrix, IdentityMatrix)}
    \cup { OpCallback("Do", <<"/Im1">>, cm, IdentityMatrix) : cm \in ImageCms }
    \cup { OpCallback("Do", <<name>>, IdentityMatrix, IdentityMatrix) :
             name \in {"/Fm1", "/X0", "/E0", "/None"} }
    \cup {OpCallback("Tj", <<"H", "i">>, IdentityMatrix, <<1, 0, 0, 1, 3, 2>>)}
    \cup {MalformedOperator}

InitExtract ==
    /\ ops \in SeqsUpTo(Callbacks, MaxOps)
    /\ xobjects = XObjectDict
    /\ call = [mediabox |-> <<0, 0, 1224, 1584>>, page |-> 1]
    /\ text_elements = <<>>
    /\ image_elements = <<>>
    /\ k = 1
    /\ pc = "extract"
    /\ report = PageReport(BoundingBox(0, 0, 0, 0), <<>>, <<>>)
    /\ result = <<>>
    /\ max_length = 0
    /\ tolerance = DefaultTolerance
    /\ parent = <<>>
    /\ i = 0
    /\ j = 0
    /\ images = <<>>
    /\ selected_elements = <<>>
    /\ remaining_elements = <<>>
    /\ current_length = 0

\* the text is placed by the text matrix alone
visitor_body_TmOnly ==
    /\ pc = "extract"
    /\ k <= Len(ops)
    /\ ops[k].cb = "text"
    /\ text_elements' = Append(text_elements,
                               TextElement(ops[k].text, ops[k].tm[5], ops[k].tm[6]))
    /\ k' = k + 1
    /\ UNCHANGED <<ops, xobjects, image_elements, call, report, max_length, tolerance,
                   pc, parent, i, j, images, selected_elements, remaining_elements,
                   current_length, result>>

\* visitor_body(text, cm, tm, font_dict, font_size)
visitor_body ==
    /\ pc = "extract"
    /\ k <= Len(ops)
    /\ ops[k].cb = "text"
    /\ LET txt2user == _mult(ops[k].tm, ops[k].cm)
       IN  text_elements' = Append(text_elements,
                                   TextElement(ops[k].text, txt2user[5], txt2user[6]))
    /\ k' = k + 1
    /\ UNCHANGED <<ops, xobjects, image_elements, call, report, max_length, tolerance,
                   pc, parent, i, j, images, selected_elements, remaining_elements,
                   current_length, result>>

\* xobjects.get(name): the entry, or None when the name is absent
XObjectGet(dict, name) ==
    IF name \in DOMAIN dict THEN [is_none |-> FALSE, entry |-> dict[name]]
    ELSE [is_none |-> TRUE, entry |-> <<>>]

\* "if xobject": None and an empty dictionary are false
Truthy(xobject) == ~xobject.is_none /\ DOMAIN xobject.entry # {}

\* visitor_op(op, args, cm, tm)
visitor_op ==
    /\ pc = "extract"
    /\ k <= Len(ops)
    /\ ops[k].cb = "op"
    /\ LET xobject_name == ops[k].args[1]
           xobject == XObjectGet(xobjects, xobject_name)
           p0 == _transform_point(0, 0, ops[k].cm)
           p1 == _transform_point(1, 1, ops[k].cm)
       IN  IF ops[k].op = "Do" /\ Truthy(xobject)
           THEN IF "/Subtype" \notin DOMAIN xobject.entry
                THEN \* xobject["/Subtype"] raises KeyError
                     /\ pc' = "KeyError"
                     /\ UNCHANGED <<image_elements, k>>
                ELSE IF xobject.entry["/Subtype"] = "/Image"
                THEN /\ image_elements' =
                          Append(image_elements,
                                 ImageElement(<<xobject_name>>,
                                     BoundingBox(Min2(p0[1], p1[1]), Min2(p0[2], p1[2]),
                                                 Max2(p0[1], p1[1]), Max2(p0[2], p1[2]))))
                     /\ k' = k + 1
                     /\ UNCHANGED pc
                ELSE /\ k' = k + 1
                     /\ UNCHANGED <<image_elements, pc>>
           ELSE /\ k' = k + 1
                /\ UNCHANGED <<image_elements, pc>>
    /\ UNCHANGED <<ops, xobjects, text_elements, call, report, max_length, tolerance,
                   parent, i, j, images, selected_elements, remaining_elements,
                   current_length, result>>

\* extract_text has made every callback: the PageReport is returned
ReturnReport ==
    /\ pc = "extract"
    /\ k > Len(ops)
    /\ report' = PageReport(BoundingBox(call.mediabox[1], call.mediabox[2],
                                        call.mediabox[3], call.mediabox[4]),
                            text_elements, image_elements)
    /\ pc' = "extracted"
    /\ UNCHANGED <<pdf_vars, max_length, tolerance, parent, i, j, images,
                   selected_elements, remaining_elements, current_length, k, result>>

\* page.extract_text raises on a malformed stream; _pdf_report has no handler
extract_text_raises ==
    /\ pc = "extract"
    /\ k <= Len(ops)
    /\ ops[k].cb = "malformed"
    /\ pc' = "PdfReadError"
    /\ UNCHANGED <<pdf_vars, report, max_length, tolerance, parent, i, j, images,
                   selected_elements, remaining_elements, current_length, k, result>>

\* the exception leaves _pdf_report and get_anchor_text, which has no handler
\* either: the caller of get_anchor_text receives it as it was raised
get_anchor_text_raises ==
    /\ pc \in {"KeyError", "PdfReadError"}
    /\ result' = [exception |-> pc,
                  args |-> IF pc = "KeyError" THEN <<"/Subtype">> ELSE <<>>]
    /\ pc' = "raised"
    /\ UNCHANGED <<pdf_vars, report, max_length, tolerance, parent, i, j, images,
                   selected_elements, remaining_elements, current_length, k>>

NextExtract ==
    \/ visitor_body
    \/ visitor_op
    \/ ReturnReport
    \/ extract_text_raises
    \/ get_anchor_text_raises

SpecExtract == InitExtract /\ [][NextExtract]_vars

----------------------------------------------------------------------------
(* The retry wrapper as a state machine: one call of                       *)
(* TyphoonOCRService._call_api_with_retry (src/backend/services/           *)
(* ocr_service.py).  call.outcomes[n] is what the n-th call of func does:  *)
(* "ok" (it returns) or the exception it raises; k is the loop variable    *)
(* attempt; ops is the log of the calls of func and of time.sleep          *)

\* Config.MAX_RETRIES
MAX_RETRIES == 5

Outcomes == {"ok", "APIConnectionError", "APITimeoutError", "ValueError"}

\* every exception is retried
IsRetryable_Any(outcome) == outcome # "ok"

\* "except (APIConnectionError, APITimeoutError)"
IsRetryable(outcome) == outcome \in {"APIConnectionError", "APITimeoutError"}

InitRetry ==
    /\ call \in { [max_retries |-> n, outcomes |-> os] :
                    n \in {0, 1, 2, MAX_RETRIES},
                    os \in [1..MAX_RETRIES -> Outcomes] }
    /\ k = 0
    /\ pc = "try"
    /\ ops = <<>>
    /\ result = <<>>
    /\ report = PageReport(BoundingBox(0, 0, 0, 0), <<>>, <<>>)
    /\ max_length = 0
    /\ tolerance = DefaultTolerance
    /\ parent = <<>>
    /\ i = 0
    /\ j = 0
    /\ images = <<>>
    /\ selected_elements = <<>>
    /\ remaining_elements = <<>>
    /\ current_length = 0
    /\ xobjects = <<>>
    /\ text_elements = <<>>
    /\ image_elements = <<>>

\* one pass of the loop body: func is called; it returns, or it raises
Attempt ==
    /\ pc = "try"
    /\ k < call.max_retries
    /\ ops' = Append(ops, [did |-> "call", n |-> k + 1])
    /\ LET outcome == call.outcomes[k + 1]
       IN  IF outcome = "ok"
           THEN /\ pc' = "returned"
                /\ result' = [value |-> <<"result of call", k + 1>>]
           ELSE IF IsRetryable(outcome) /\ k # call.max_retries - 1
           THEN /\ pc' = "sleep"
                /\ UNCHANGED result
           ELSE /\ pc' = "raised"
                /\ result' = [exception |-> outcome, n |-> k + 1]
    /\ UNCHANGED <<xobjects, text_elements, image_elements, call, report, max_length,
                   tolerance, parent, i, j, images, selected_elements,
                   remaining_elements, current_length, k>>

\* time.sleep(2 ** attempt), then the next pass
Backoff ==
    /\ pc = "sleep"
    /\ ops' = Append(ops, [did |-> "sleep", n |-> Pow2(k)])
    /\ k' = k + 1
    /\ pc' = "try"
    /\ UNCHANGED <<xobjects, text_elements, image_elements, call, report, max_length,
                   tolerance, parent, i, j, images, selected_elements,
                   remaining_elements, current_length, result>>

\* range(MAX_RETRIES) is exhausted without a return or a raise (only an
\* empty range gets here): the function falls off its end and returns None
LoopEnds ==
    /\ pc = "try"
    /\ k >= call.max_retries
    /\ pc' = "returned"
    /\ result' = [value |-> <<"None">>]
    /\ UNCHANGED <<pdf_vars, report, max_length, tolerance, parent, i, j, images,
                   selected_elements, remaining_elements, current_length, k>>

NextRetry ==
    \/ Attempt
    \/ Backoff
    \/ LoopEnds

SpecRetry == InitRetry /\ [][NextRetry]_vars

----------------------------------------------------------------------------
(* The document loop as a state machine: one call of                       *)
(* TyphoonOCRService.process_document (src/backend/services/               *)
(* ocr_service.py).  call holds the arguments and what the outside world    *)
(* does: call.file is the file at file_path, call.pages the argument pages  *)
(* (the empty sequence is None as well as []: both are false in "if         *)
(* pages"), call.outcomes[n] what the n-th pass of the page loop does: "ok" *)
(* (the messages are prepared and the API call returns) or "raises" (one of *)
(* them raises).  ops is target_pages, k the position of page_num in it,    *)
(* result the list results and, once returned, the OcrResult.               *)

\* the most passes of the page loop: the longest target_pages
MaxPasses == IF MaxPages > MaxRequested THEN MaxPages ELSE MaxRequested

\* the files at file_path: none, an image, or a PDF of 1..MaxPages pages
Files ==
    {[exists |-> FALSE, is_pdf |-> FALSE, pages |-> 0],
     [exists |-> FALSE, is_pdf |-> TRUE, pages |-> 0],
     [exists |-> TRUE, is_pdf |-> FALSE, pages |-> 1]}
    \cup {[exists |-> TRUE, is_pdf |-> TRUE, pages |-> n] : n \in 1..MaxPages}

\* get_page_count: the pages of a PDF, 1 for any other file
get_page_count(file) == IF file.is_pdf THEN file.pages ELSE 1

\* Determine target pages (lines 173-178)
TargetPages(pages, is_pdf, total_pages) ==
    LET Keep(p) == 1 <= p /\ p <= total_pages
    IN  IF pages # <<>> THEN SelectSeq(pages, Keep)
        ELSE IF is_pdf THEN [n \in 1..total_pages |-> n]
        ELSE <<1>>

\* all(r.success for r in results)
AllSucceeded(results) == \A n \in 1..Len(results) : results[n].success

OcrPageResult(page, success) == [page |-> page, success |-> success]

OcrResult(success, results, error) ==
    [success |-> success, results |-> results, error |-> error]

InitDocument ==
    /\ call \in { [file |-> f, pages |-> ps, outcomes |-> os] :
                    f \in Files,
                    ps \in SeqsUpTo(0..(MaxPages + 1), MaxRequested),
                    os \in [1..MaxPasses -> {"ok", "raises"}] }
    /\ k = 0
    /\ pc = "start"
    /\ ops = <<>>
    /\ result = <<>>
    /\ report = PageReport(BoundingBox(0, 0, 0, 0), <<>>, <<>>)
    /\ max_length = 0
    /\ tolerance = DefaultTolerance
    /\ parent = <<>>
    /\ i = 0
    /\ j = 0
    /\ images = <<>>
    /\ selected_elements = <<>>
    /\ remaining_elements = <<>>
    /\ current_length = 0
    /\ xobjects = <<>>
    /\ text_elements = <<>>
    /\ image_elements = <<>>

\* the early return of lines 166-167
FileNotFound ==
    /\ pc = "start"
    /\ ~call.file.exists
    /\ result' = OcrResult(FALSE, <<>>, "File not found")
    /\ pc' = "returned"
    /\ UNCHANGED <<pdf_vars, report, max_length, tolerance, parent, i, j, images,
                   selected_elements, remaining_elements, current_length, k>>

\* lines 169-187: total_pages, target_pages and the empty list results
DetermineTargetPages ==
    /\ pc = "start"
    /\ call.file.exists
    /\ ops' = TargetPages(call.pages, call.file.is_pdf, get_page_count(call.file))
    /\ result' = <<>>
    /\ k' = 1
    /\ pc' = "page"
    /\ UNCHANGED <<xobjects, text_elements, image_elements, call, report, max_length,
                   tolerance, parent, i, j, images, selected_elements,
                   remaining_elements, current_length>>

\* one pass of the page loop whose try block runs to its end (lines 190-243)
PageSucceeds ==
    /\ pc = "page"
    /\ k <= Len(ops)
    /\ call.outcomes[k] = "ok"
    /\ result' = Append(result, OcrPageResult(ops[k], TRUE))
    /\ k' = k + 1
    /\ UNCHANGED <<pdf_vars, report, max_length, tolerance, parent, i, j, images,
                   selected_elements, remaining_elements, current_length, pc>>

\* one pass of the page loop whose try block raises (lines 245-250)
PageFails ==
    /\ pc = "page"
    /\ k <= Len(ops)
    /\ call.outcomes[k] = "raises"
    /\ result' = Append(result, OcrPageResult(ops[k], FALSE))
    /\ k' = k + 1
    /\ UNCHANGED <<pdf_vars, report, max_length, tolerance, parent, i, j, images,
                   selected_elements, remaining_elements, current_length, pc>>

\* the loop is over: the return of lines 254-259
ReturnOcrResult ==
    /\ pc = "page"
    /\ k > Len(ops)
    /\ result' = OcrResult(AllSucceeded(result), result, "None")
    /\ pc' = "returned"
    /\ UNCHANGED <<pdf_vars, report, max_length, tolerance, parent, i, j, images,
                   selected_elements, remaining_elements, current_length, k>>

NextDocument ==
    \/ FileNotFound
    \/ DetermineTargetPages
    \/ PageSucceeds
    \/ PageFails
    \/ ReturnOcrResult

SpecDocument == InitDocument /\ [][NextDocument]_vars

----------------------------------------------------------------------------
(* Properties of _linearize_pdf_report, checked under Spec *)

\* line occurs in text as a run of consecutive characters
Occurs(line, text) ==
    \E off \in 0..(Len(text) - Len(line)) : SubSeq(text, off + 1, off + Len(line)) = line

\* the header line, spelled out for the two media boxes of the model
ExpectedHeader ==
    <<"P", "a", "g", "e", " ", "d", "i", "m", "e", "n", "s", "i", "o", "n", "s", ":", " ">>
    \o (IF report.mediabox.x1 = 1224
        THEN <<"6", "1", "2", ".", "0", "x", "7", "9", "2", ".", "0">>
        ELSE <<"0", ".", "5", "x", "1", ".", "5">>)
    \o <<"\n">>

\* the merged images the call works on
MergedNow == _merge_image_elements(report.image_elements, DefaultTolerance)

\* the text elements that are not empty or whitespace-only, by their characters
OnlySpace(t) == \A n \in 1..Len(t.text) : t.text[n] \in {" ", "\t", "\n", "\r"}

RECURSIVE VisibleTexts(_)
VisibleTexts(texts) ==
    IF texts = <<>> THEN <<>>
    ELSE IF OnlySpace(Head(texts)) THEN VisibleTexts(Tail(texts))
    ELSE <<Head(texts)>> \o VisibleTexts(Tail(texts))

ImageLinesNow == [n \in 1..Len(MergedNow) |-> ImageLine(MergedNow[n])]

TextLinesNow ==
    [n \in 1..Len(VisibleTexts(report.text_elements)) |->
        TextLine(VisibleTexts(report.text_elements)[n])]

\* header length plus the lengths of all candidate lines
SerializedLength == Len(ExpectedHeader) + SumLen(ImageLinesNow) + SumLen(TextLinesNow)

InFit == max_length >= 20 /\ SerializedLength <= max_length

InBudgetFit == max_length >= 20 /\ SerializedLength > max_length

EdgesNow == SelectedEdges(report, MergedNow)

\* header length plus the lengths of the edge lines
EdgeLength == Len(ExpectedHeader) + SumLen(Lines(EdgesNow))

\* C1 as stated: for every PageReport and every max_length the returned
\* string has at most max_length characters.
C1_LengthBounded == pc = "done" => Len(result) <= max_length

\* C1 amended: for max_length >= 20 the returned string has at most
\* max(max_length, header length + lengths of the edge lines) characters;
\* for max_length < 20 it is the header line, which is longer than max_length.
C1_LengthBoundedByBudgetOrEdges ==
    pc = "done" =>
        IF max_length < 20
        THEN Len(result) = Len(ExpectedHeader) /\ Len(result) > max_length
        ELSE Len(result) <= Max2(max_length, EdgeLength)

\* a budget-fit call in which the fill step accepted one element and
\* dropped another, and the result is within max_length
C1_Witness ==
    /\ pc = "done"
    /\ InBudgetFit
    /\ Len(selected_elements) > Len(EdgesNow)
    /\ Len(selected_elements) < Len(AllElements(report, MergedNow))
    /\ Len(result) <= max_length

\* C2: for max_length < 20 the result is exactly the header line, however
\* many text and image elements the report holds.
C2_HeaderOnlyBelow20 ==
    (pc = "done" /\ max_length < 20) => result = ExpectedHeader

C2_Witness ==
    /\ pc = "done"
    /\ max_length < 20
    /\ Len(report.text_elements) >= 2
    /\ Len(report.image_elements) >= 2
    /\ result = ExpectedHeader

MinOf(S) == CHOOSE v \in S : \A w \in S : v <= w

MaxOf(S) == CHOOSE v \in S : \A w \in S : v >= w

TextXs == { VisibleTexts(report.text_elements)[n].x :
              n \in 1..Len(VisibleTexts(report.text_elements)) }

TextYs == { VisibleTexts(report.text_elements)[n].y :
              n \in 1..Len(VisibleTexts(report.text_elements)) }

\* some text of ts with x = vx (or any x when vx = -1) and y = vy (or any y
\* when vy = -1) has its line in the output
TextLineIn(ts, vx, vy) ==
    \E n \in 1..Len(ts) :
        /\ vx # -1 => ts[n].x = vx
        /\ vy # -1 => ts[n].y = vy
        /\ Occurs(TextLine(ts[n]), result)

TextLineAt(vx, vy) == TextLineIn(VisibleTexts(report.text_elements), vx, vy)

\* some image of imgs whose coordinate c ("x0", "y0", "x1", "y1") is the
\* extreme one has its line in the output
ImageLineMinIn(imgs, c) ==
    \E n \in 1..Len(imgs) :
        /\ imgs[n].bbox[c] = MinOf({ imgs[m].bbox[c] : m \in 1..Len(imgs) })
        /\ Occurs(ImageLine(imgs[n]), result)

ImageLineMaxIn(imgs, c) ==
    \E n \in 1..Len(imgs) :
        /\ imgs[n].bbox[c] = MaxOf({ imgs[m].bbox[c] : m \in 1..Len(imgs) })
        /\ Occurs(ImageLine(imgs[n]), result)

ImageLineAtMin(c) == ImageLineMinIn(MergedNow, c)

ImageLineAtMax(c) == ImageLineMaxIn(MergedNow, c)

\* C4: in the budget-fit branch, for every shuffle order, the output holds
\* the lines of the non-blank texts with minimum x, maximum x, minimum y and
\* maximum y and of the merged images with minimum x0, maximum x1, minimum y0
\* and maximum y1.
C4_ExtremesPresent ==
    (pc = "done" /\ InBudgetFit) =>
        /\ VisibleTexts(report.text_elements) # <<>> =>
              /\ TextLineAt(MinOf(TextXs), -1)
              /\ TextLineAt(MaxOf(TextXs), -1)
              /\ TextLineAt(-1, MinOf(TextYs))
              /\ TextLineAt(-1, MaxOf(TextYs))
        /\ MergedNow # <<>> =>
              /\ ImageLineAtMin("x0")
              /\ ImageLineAtMax("x1")
              /\ ImageLineAtMin("y0")
              /\ ImageLineAtMax("y1")

\* a budget-fit call on three non-blank texts and three images that had to
\* drop an element
C4_Witness ==
    /\ pc = "done"
    /\ InBudgetFit
    /\ Len(VisibleTexts(report.text_elements)) >= 3
    /\ Cardinality(TextXs) >= 3
    /\ Len(MergedNow) >= 3
    /\ Len(selected_elements) < Len(AllElements(report, MergedNow))
    /\ TextLineAt(MaxOf(TextXs), -1)
    /\ ImageLineAtMax("y1")

\* C5: in the budget-fit branch every edge line is emitted whole even when
\* header plus edge lines already exceed max_length; then the remaining
\* budget is negative, no non-edge element is accepted and the output is the
\* header and the edge lines only.
C5_EdgesUnconditional ==
    (pc = "done" /\ InBudgetFit /\ EdgeLength > max_length) =>
        /\ max_length - EdgeLength < 0
        /\ \A n \in 1..Len(EdgesNow) : Occurs(EdgesNow[n].s, result)
        /\ Ids(selected_elements) = Ids(EdgesNow)
        /\ Len(result) = EdgeLength
        /\ result = ExpectedHeader \o Flatten(Lines(selected_elements))

\* the edge lines alone exceed a max_length that the header fits in, and
\* two non-edge elements were refused
C5_Witness ==
    /\ pc = "done"
    /\ InBudgetFit
    /\ EdgeLength > max_length
    /\ Len(ExpectedHeader) < max_length
    /\ Len(EdgesNow) >= 2
    /\ Len(remaining_elements) >= 2
    /\ Ids(selected_elements) = Ids(EdgesNow)

\* header + edge lines + the first n lines of the traversal order
PrefixLength(n) == EdgeLength + SumLen(Lines(SubSeq(remaining_elements, 1, n)))

\* the length of the longest prefix of the traversal order that fits
LongestFit ==
    IF EdgeLength > max_length THEN 0
    ELSE CHOOSE n \in 0..Len(remaining_elements) :
            /\ PrefixLength(n) <= max_length
            /\ n < Len(remaining_elements) => PrefixLength(n + 1) > max_length

\* C6: in the budget-fit branch the accepted non-edge elements are exactly
\* the longest prefix of the random traversal order whose cumulative length,
\* added to header plus edge lines, stays <= max_length.
C6_LongestPrefixAccepted ==
    (pc = "done" /\ InBudgetFit) =>
        /\ Ids(remaining_elements) = Ids(Remaining(report, MergedNow))
        /\ Len(remaining_elements) = Len(Remaining(report, MergedNow))
        /\ Ids(selected_elements) \ Ids(EdgesNow) =
               Ids(SubSeq(remaining_elements, 1, LongestFit))

\* the first candidate of the traversal overflowed and a later one, which
\* would still have fitted, was not accepted
C6_Witness ==
    /\ pc = "done"
    /\ InBudgetFit
    /\ EdgeLength <= max_length
    /\ LongestFit + 2 <= Len(remaining_elements)
    /\ \E q \in (LongestFit + 2)..Len(remaining_elements) :
          /\ PrefixLength(LongestFit) + Len(remaining_elements[q].s) <= max_length
          /\ remaining_elements[q].id \notin Ids(selected_elements)

\* the position tuple of an entry: (bbox.x0, bbox.y0) or (x, y)
PositionOf(e) ==
    IF e.kind = "image" THEN <<e.elem.bbox.x0, e.elem.bbox.y0>> ELSE <<e.elem.x, e.elem.y>>

TupleLE(p, q) == p[1] < q[1] \/ (p[1] = q[1] /\ p[2] <= q[2])

\* C7: in the budget-fit branch the lines after the header appear in
\* non-decreasing order of the position tuple, for every shuffle order.
C7_SortedByPosition ==
    (pc = "done" /\ InBudgetFit) =>
        /\ result = ExpectedHeader \o Flatten(Lines(selected_elements))
        /\ \A a, b \in 1..Len(selected_elements) :
              a < b => TupleLE(PositionOf(selected_elements[a]),
                               PositionOf(selected_elements[b]))

\* the fill step accepted an element and the order of selection (edges,
\* then accepted) is not the order of the output
C7_Witness ==
    /\ pc = "done"
    /\ InBudgetFit
    /\ k > 1
    /\ Len(selected_elements) >= 4
    /\ selected_elements # EdgesNow \o SubSeq(remaining_elements, 1, k - 1)
    /\ result = ExpectedHeader \o Flatten(Lines(selected_elements))

\* the line a whitespace-only text would give: its sanitized text is empty
BlankLine(t) == <<"[">> \o Fmt0(t.x) \o <<"x">> \o Fmt0(t.y) \o <<"]", "\n">>

BlankTexts == { n \in 1..Len(report.text_elements) : OnlySpace(report.text_elements[n]) }

\* C8: a text element whose text is empty or whitespace-only never gives an
\* output line, never counts toward the length compared with max_length and
\* is never chosen as an edge element, in the fit and the budget-fit branch.
C8_BlankTextsDropped ==
    /\ pc = "done" =>
          \A n \in BlankTexts : ~Occurs(BlankLine(report.text_elements[n]), result)
    /\ \A n \in 1..Len(selected_elements) :
          selected_elements[n].kind = "text" => ~OnlySpace(selected_elements[n].elem)
    /\ \A n \in 1..Len(remaining_elements) :
          remaining_elements[n].kind = "text" => ~OnlySpace(remaining_elements[n].elem)
    /\ \A e \in EdgeElements(report, MergedNow) :
          "text" \in DOMAIN e => ~OnlySpace(e)
    /\ (pc = "done" /\ max_length >= 20 /\ SerializedLength <= max_length) =>
          Len(result) = SerializedLength
    /\ pc = "fill" =>
          /\ SerializedLength > max_length
          /\ k = 1 => current_length = EdgeLength

\* budget fit on a report whose blank text lies left of and below every
\* other text, so that it would be the min-x and min-y edge if it counted
C8_Witness ==
    /\ pc = "done"
    /\ InBudgetFit
    /\ BlankTexts # {}
    /\ VisibleTexts(report.text_elements) # <<>>
    /\ \A n \in BlankTexts :
          /\ report.text_elements[n].x < MinOf(TextXs)
          /\ report.text_elements[n].y < MinOf(TextYs)
    /\ \A n \in BlankTexts : ~Occurs(BlankLine(report.text_elements[n]), result)

\* C9: for every valid PageReport and every max_length the call returns
\* normally (the fill loop can always take its next step or end) and the
\* result starts with the header line built from mediabox.x1 and mediabox.y1.
C9_ReturnsWithHeader ==
    /\ pc = "done" =>
          /\ Len(result) >= Len(ExpectedHeader)
          /\ SubSeq(result, 1, Len(ExpectedHeader)) = ExpectedHeader
    /\ pc = "fill" => ENABLED (FillAccept \/ FillFinish)

C9_Witness ==
    /\ pc = "done"
    /\ max_length >= 20
    /\ report.text_elements # <<>>
    /\ report.image_elements # <<>>
    /\ Len(result) > Len(ExpectedHeader)
    /\ SubSeq(result, 1, Len(ExpectedHeader)) = ExpectedHeader

\* C12: the calls leave their inputs unchanged: in every step of the
\* linearizer (the merge, the edge selection, the shuffle, the fill and the
\* sort) the report's text_elements and image_elements lists hold the same
\* elements in the same order as before.
C12_InputsUnchanged ==
    [][/\ report'.text_elements = report.text_elements
       /\ report'.image_elements = report.image_elements]_vars

\* a finished budget-fit call in which the merge joined images, a shuffled
\* pool was traversed and the sort reordered the selection, with the report
\* as it was given
C12_Witness ==
    /\ pc = "done"
    /\ InBudgetFit
    /\ Len(images) < Len(report.image_elements)
    /\ remaining_elements # <<>>
    /\ selected_elements # EdgesNow \o SubSeq(remaining_elements, 1, k - 1)
    /\ Len(report.text_elements) >= 2
    /\ report.image_elements \in ImageLists
    /\ report.text_elements \in TextLists

\* the entries of kind kd selected before the fill step: the edge elements
\* that are included whatever the budget
IncludedOfKind(kd) ==
    { n \in 1..Len(selected_elements) :
        /\ selected_elements[n].kind = kd
        /\ selected_elements[n].id \notin Ids(remaining_elements) }

----------------------------------------------------------------------------
(* Properties of two calls on the same arguments, checked under SpecRuns *)

BothDone == pc = "done" /\ call.run = 2

\* the elements a call selected without taking them from the shuffled pool
IncludedEdges(selected, pool) == Ids(selected) \ Ids(pool)

\* the accepted elements: those taken from the shuffled pool
Accepted(selected, pool) ==
    { n \in 1..Len(selected) : selected[n].id \in Ids(pool) }

\* the two calls agree on the header and on the edge elements included
HeaderAndEdgesAgree ==
    /\ SubSeq(result, 1, Len(ExpectedHeader)) = ExpectedHeader
    /\ SubSeq(call.result, 1, Len(ExpectedHeader)) = ExpectedHeader
    /\ IncludedEdges(selected_elements, remaining_elements)
         = IncludedEdges(call.selected_elements, call.remaining_elements)
    /\ IncludedEdges(selected_elements, remaining_elements) = Ids(EdgesNow)

\* no two accepted elements of the call have the same position tuple
NoAcceptedTie ==
    \A a, b \in Accepted(selected_elements, remaining_elements) :
        a # b => selected_elements[a].position # selected_elements[b].position

\* C22 as stated: two calls on the same report and max_length return the
\* same string when max_length < 20 or everything fits; in the budget-fit
\* branch they agree on the header and on the edge elements included and
\* differ only in which non-edge elements were accepted.
C22_RunsDifferOnlyInAccepted ==
    BothDone =>
        /\ (max_length < 20 \/ InFit) => result = call.result
        /\ InBudgetFit =>
              /\ HeaderAndEdgesAgree
              /\ Ids(selected_elements) = Ids(call.selected_elements)
                    => result = call.result

\* C22: two calls on the same report and max_length return the same string
\* when max_length < 20 or everything fits; in the budget-fit branch they
\* agree on the header and on the edge elements included; when they accepted
\* the same non-edge elements the results have the same length, and are the
\* same string if no two accepted elements share a position tuple.
C22_RunsDifferInAcceptedAndTieOrder ==
    BothDone =>
        /\ (max_length < 20 \/ InFit) => result = call.result
        /\ InBudgetFit =>
              /\ HeaderAndEdgesAgree
              /\ Ids(selected_elements) = Ids(call.selected_elements) =>
                    /\ Len(result) = Len(call.result)
                    /\ NoAcceptedTie => result = call.result

\* the call went through the edge selection and the fill loop (k is the
\* position of the loop, 0 in a call that returned before it)
TookBudgetFit == k >= 1

\* the first place of keys that holds the value v
FirstIndexOf(keys, v) ==
    CHOOSE n \in 1..Len(keys) : keys[n] = v /\ \A m \in 1..(n - 1) : keys[m] # v

\* the first element of elems with the smallest (largest) field c
FirstWithMin(elems, c) ==
    elems[FirstIndexOf([n \in 1..Len(elems) |-> elems[n][c]],
                       MinOf({ elems[n][c] : n \in 1..Len(elems) }))]

FirstWithMax(elems, c) ==
    elems[FirstIndexOf([n \in 1..Len(elems) |-> elems[n][c]],
                       MaxOf({ elems[n][c] : n \in 1..Len(elems) }))]

Boxes == [n \in 1..Len(MergedNow) |-> MergedNow[n].bbox]

\* the images and non-blank texts that come first, in iteration order,
\* among those with an extreme coordinate
FirstAtExtremes ==
    LET merged == MergedNow
        boxes == [n \in 1..Len(merged) |-> merged[n].bbox]
        first == {FirstWithMin(boxes, "x0"), FirstWithMax(boxes, "x1"),
                  FirstWithMin(boxes, "y0"), FirstWithMax(boxes, "y1")}
        texts == VisibleTexts(report.text_elements)
    IN  (IF merged = <<>> THEN {}
         ELSE { merged[n] : n \in { m \in 1..Len(merged) : boxes[m] \in first } })
        \cup
        (IF texts = <<>> THEN {}
         ELSE {FirstWithMin(texts, "x"), FirstWithMax(texts, "x"),
               FirstWithMin(texts, "y"), FirstWithMax(texts, "y")})

\* the elements selected before the fill step
IncludedElements ==
    { selected_elements[n].elem :
        n \in { m \in 1..Len(selected_elements) :
                  selected_elements[m].id \notin Ids(remaining_elements) } }

\* two elements of elems differ and have the same key, which is the
\* smallest or the largest of keys, and the later one is in the pool
TieLeftInPool(elems, keys, kd) ==
    \E a, b \in 1..Len(elems) :
        /\ a < b
        /\ elems[a] # elems[b]
        /\ keys[a] = keys[b]
        /\ keys[a] \in {MinOf(Range(keys)), MaxOf(Range(keys))}
        /\ elems[a] \in IncludedElements
        /\ \E n \in 1..Len(remaining_elements) :
              /\ remaining_elements[n].kind = kd
              /\ remaining_elements[n].elem = elems[b]

\* C26: when several images (or several non-blank texts) share an extreme
\* coordinate value, the edge element for that extreme is the one that comes
\* first in iteration order, for minima and maxima alike: the elements
\* included before the fill step are those first ones (and the elements
\* equal to them), a later one of a tie stays in the pool.
C26_FirstOfTieIsEdge ==
    (pc = "done" /\ TookBudgetFit) => IncludedElements = FirstAtExtremes

\* a report whose texts tie at the largest and the smallest x and whose
\* images tie at an extreme, the later element of each tie left in the pool
C26_Witness ==
    /\ pc = "done"
    /\ InBudgetFit
    /\ report.text_elements = TiedTexts
    /\ TieLeftInPool(report.text_elements,
                     [n \in 1..Len(report.text_elements) |-> report.text_elements[n].x],
                     "text")
    /\ \/ TieLeftInPool(MergedNow, [n \in 1..Len(Boxes) |-> Boxes[n].x0], "image")
       \/ TieLeftInPool(MergedNow, [n \in 1..Len(Boxes) |-> Boxes[n].x1], "image")
    /\ IncludedElements = FirstAtExtremes

\* two budget-fit calls that traversed the pool in different orders and
\* accepted different elements, with the same edge elements in both results
C22_Witness ==
    /\ BothDone
    /\ InBudgetFit
    /\ remaining_elements # call.remaining_elements
    /\ Ids(selected_elements) # Ids(call.selected_elements)
    /\ result # call.result
    /\ Ids(EdgesNow) # {}
    /\ HeaderAndEdgesAgree

----------------------------------------------------------------------------
(* Properties of concurrent invocations, checked under SpecPar *)

\* the fill loop on the traversal order pool: the entries accepted
RECURSIVE AcceptedPrefix(_, _, _)
AcceptedPrefix(pool, cur, maxlen) ==
    IF pool = <<>> THEN <<>>
    ELSE IF cur + Len(Head(pool).s) > maxlen THEN <<>>
    ELSE <<Head(pool)>>
         \o AcceptedPrefix(Tail(pool), cur + Len(Head(pool).s), maxlen)

\* the strings a call of _linearize_pdf_report(rep, maxlen) can return when
\* it runs alone, one per traversal order of the fill step
AloneResults(rep, maxlen) ==
    LET imgs == _merge_image_elements(rep.image_elements, DefaultTolerance)
        edges == SelectedEdges(rep, imgs)
        start == Len(Header(rep)) + SumLen(Lines(edges))
    IN  IF maxlen < 20 THEN {Header(rep)}
        ELSE IF TotalLength(rep, imgs) <= maxlen THEN {FitResult(rep, imgs)}
        ELSE { Header(rep)
                 \o Flatten(Lines(SortByPosition(
                        edges \o AcceptedPrefix(sh, start, maxlen)))) :
               sh \in Shuffles(Remaining(rep, imgs)) }

\* a finished invocation holds a result it could have produced alone
AsAlone(f) ==
    /\ f.pc = "done" => f.result \in AloneResults(f.report, f.max_length)
    /\ f.pc = "merged" =>
          f.images = _merge_image_elements(f.report.image_elements, f.tolerance)

\* C23: when invocations of the merger and the linearizer run concurrently,
\* each on its own PageReport, every interleaving gives each invocation a
\* result it could have produced running alone: the union-find parents, the
\* selection lists and the element lists of an invocation are its own, in
\* the running and in the suspended invocation alike.
C23_ConcurrentAsAlone ==
    /\ AsAlone(RunningFrame)
    /\ AsAlone(call)

\* an invocation has finished a budget-fit call that accepted an element
\* while another invocation is in the middle of its union loop, with a
\* union made and pairs left to visit
C23_Witness ==
    /\ pc = "done"
    /\ max_length >= 20
    /\ remaining_elements # <<>>
    /\ k > 1
    /\ result \in AloneResults(report, max_length)
    /\ call.pc = "union"
    /\ call.j <= Len(call.report.image_elements)
    /\ call.parent # [a \in 1..Len(call.report.image_elements) |-> a]

----------------------------------------------------------------------------
(* Properties of the text sanitizer, checked under SpecText *)

Escapable == {"[", "]", "\n", "\r", "\t"}

HasAny(t, chars) == \E x \in 1..Len(t) : t[x] \in chars

\* the text without its leading and trailing blanks, by position
Trimmed(t) ==
    IF \A x \in 1..Len(t) : t[x] = " " THEN <<>>
    ELSE SubSeq(t, CHOOSE x \in 1..Len(t) : t[x] # " " /\ \A y \in 1..(x - 1) : t[y] = " ",
                   CHOOSE x \in 1..Len(t) : t[x] # " " /\ \A y \in (x + 1)..Len(t) : t[y] = " ")

Ellipsis == <<".", ".", ".">>

\* C13: for a text of at most 250 characters with none of "[", "]", newline,
\* carriage return and tab, the sanitizer returns the text with its leading
\* and trailing whitespace removed and nothing else changed.
C13_PlainTextTrimmed ==
    (/\ pc = "cleaned"
     /\ Len(call.text) <= MAX_TEXT_ELEMENT_LENGTH
     /\ ~HasAny(call.text, Escapable)) => result = Trimmed(call.text)

\* a text of exactly 250 characters with a blank at both ends
C13_Witness ==
    /\ pc = "cleaned"
    /\ Len(call.text) = MAX_TEXT_ELEMENT_LENGTH
    /\ ~HasAny(call.text, Escapable)
    /\ call.text[1] = " "
    /\ call.text[Len(call.text)] = " "
    /\ HasAny(result, {" "})
    /\ result = Trimmed(call.text)
    /\ Len(result) < Len(call.text)

C15_ResultCapped ==
    pc \in {"cleaned", "recleaned"} => Len(result) <= MAX_TEXT_ELEMENT_LENGTH

\* a text within the cap before the escaping and over it after
C15_Witness ==
    /\ pc = "cleaned"
    /\ Len(Strip(call.text)) <= MAX_TEXT_ELEMENT_LENGTH
    /\ Len(Escape(Strip(FixText(call.text)))) > MAX_TEXT_ELEMENT_LENGTH
    /\ Occurs(Ellipsis, result)
    /\ Len(result) <= MAX_TEXT_ELEMENT_LENGTH

\* C16 as stated: a text longer than max_length is cut to a text that holds
\* "..." and has at most max_length characters.
C16_CapBounded ==
    (pc = "capped" /\ Len(call.text) > max_length) =>
        /\ Occurs(Ellipsis, result)
        /\ Len(result) <= max_length

\* C16: a text longer than max_length is cut to a text that holds "...";
\* it has at most max_length characters when max_length >= 8.
C16_CapBoundedFrom8 ==
    (pc = "capped" /\ Len(call.text) > max_length) =>
        /\ Occurs(Ellipsis, result)
        /\ max_length >= 8 => Len(result) <= max_length

\* the smallest cap that holds: one character on each side of " ... "
C16_Witness ==
    /\ pc = "capped"
    /\ max_length = 8
    /\ Len(call.text) > MAX_TEXT_ELEMENT_LENGTH
    /\ Len(result) = 7
    /\ Occurs(Ellipsis, result)

\* C27: in every result of the sanitizer, a result cut to the cap included,
\* every "[" and every "]" comes right after a backslash and no raw newline,
\* carriage return or tab occurs, so that the line of a text element holds
\* one newline, its last character.
C27_BracketsEscapedNoBreaks ==
    pc \in {"cleaned", "recleaned"} =>
        /\ \A x \in 1..Len(result) :
              result[x] \in {"[", "]"} => (x > 1 /\ result[x - 1] = "\\")
        /\ ~HasAny(result, {"\n", "\r", "\t"})

----------------------------------------------------------------------------
(* Properties of _mult and _transform_point, checked under SpecMatrix *)

\* the same computations in exact integer arithmetic
ExactPoint(x, y, m) == <<m[1] * x + m[3] * y + m[5], m[2] * x + m[4] * y + m[6]>>

ExactMult(m, n) ==
    <<m[1] * n[1] + m[2] * n[3], m[1] * n[2] + m[2] * n[4],
      m[3] * n[1] + m[4] * n[3], m[3] * n[2] + m[4] * n[4],
      m[5] * n[1] + m[6] * n[3] + n[5], m[5] * n[2] + m[6] * n[4] + n[6]>>

\* every product and every partial sum of _transform_point(x, y, m)
PointSteps(x, y, m) ==
    {m[1] * x, m[3] * y, m[1] * x + m[3] * y, m[1] * x + m[3] * y + m[5],
     m[2] * x, m[4] * y, m[2] * x + m[4] * y, m[2] * x + m[4] * y + m[6]}

\* every product and every partial sum of _mult(m, n)
MultSteps(m, n) ==
    {m[1] * n[1], m[2] * n[3], m[1] * n[2], m[2] * n[4],
     m[3] * n[1], m[4] * n[3], m[3] * n[2], m[4] * n[4],
     m[5] * n[1], m[6] * n[3], m[5] * n[1] + m[6] * n[3],
     m[5] * n[2], m[6] * n[4], m[5] * n[2] + m[6] * n[4]}
    \cup Range(ExactMult(m, n))

\* no product and no sum of the two computations is rounded
NoRounding ==
    \A v \in MultSteps(call.m, call.n)
              \cup PointSteps(call.x, call.y, ExactMult(call.m, call.n))
              \cup PointSteps(call.x, call.y, call.m)
              \cup PointSteps(ExactPoint(call.x, call.y, call.m)[1],
                              ExactPoint(call.x, call.y, call.m)[2], call.n) :
        FRound(v) = v

\* m then n, in exact arithmetic
MThenN == ExactPoint(ExactPoint(call.x, call.y, call.m)[1],
                     ExactPoint(call.x, call.y, call.m)[2], call.n)

NThenM == ExactPoint(ExactPoint(call.x, call.y, call.n)[1],
                     ExactPoint(call.x, call.y, call.n)[2], call.m)

\* C17 as stated: transforming by _mult(m, n) equals transforming by m and
\* then by n, for all matrices and points.
C17_ComposeEqualsChain == pc = "chained" => result[1] = result[2]

\* C17: transforming by _mult(m, n) equals transforming by m and then by n
\* (m first) whenever no product and no sum of the two computations is
\* rounded.
C17_ComposeEqualsChainWhenExact ==
    (pc = "chained" /\ NoRounding) =>
        /\ result[1] = result[2]
        /\ result[1] = MThenN

\* an exact case in which the order matters: n then m gives another point
C17_Witness ==
    /\ pc = "chained"
    /\ NoRounding
    /\ MThenN # NThenM
    /\ call.m[5] # 0
    /\ call.n[2] # 0
    /\ result[1] = result[2]
    /\ result[1] = MThenN

----------------------------------------------------------------------------
(* Properties of _pdf_report, checked under SpecExtract *)

\* the callbacks made so far
Made == SubSeq(ops, 1, k - 1)

RECURSIVE TextCallbacksOf(_)
TextCallbacksOf(cbs) ==
    IF cbs = <<>> THEN <<>>
    ELSE IF Head(cbs).cb = "text" THEN <<Head(cbs)>> \o TextCallbacksOf(Tail(cbs))
    ELSE TextCallbacksOf(Tail(cbs))

\* a Do that names an image XObject of the resource dictionary
IsImageDo(c) ==
    /\ c.cb = "op"
    /\ c.op = "Do"
    /\ c.args[1] \in DOMAIN xobjects
    /\ "/Subtype" \in DOMAIN xobjects[c.args[1]]
    /\ xobjects[c.args[1]]["/Subtype"] = "/Image"

RECURSIVE ImageDosOf(_)
ImageDosOf(cbs) ==
    IF cbs = <<>> THEN <<>>
    ELSE IF IsImageDo(Head(cbs)) THEN <<Head(cbs)>> \o ImageDosOf(Tail(cbs))
    ELSE ImageDosOf(Tail(cbs))

\* the image of the text-matrix origin (tm.e, tm.f) under cm
OriginUnderCm(c) == _transform_point(c.tm[5], c.tm[6], c.cm)

\* C18: the extractor records exactly one TextElement per text callback, in
\* callback order and without merging adjacent runs; its (x, y) is the
\* translation part of compose(tm, cm), the image of the text-matrix origin
\* under the current transformation matrix.
C18_OneTextPerCallback ==
    pc \in {"extract", "extracted", "KeyError"} =>
        /\ Len(text_elements) = Len(TextCallbacksOf(Made))
        /\ \A x \in 1..Len(text_elements) :
              /\ text_elements[x].text = TextCallbacksOf(Made)[x].text
              /\ <<text_elements[x].x, text_elements[x].y>>
                   = OriginUnderCm(TextCallbacksOf(Made)[x])
        /\ pc = "extracted" => report.text_elements = text_elements

\* two equal adjacent runs, both recorded, under a cm that moves the origin,
\* with an operator callback in the same page
C18_Witness ==
    /\ pc = "extracted"
    /\ Len(ops) = 3
    /\ Len(report.text_elements) = 2
    /\ \E x \in 1..2 : ops[x].cb = "text" /\ ops[x + 1] = ops[x]
    /\ report.text_elements[1] = report.text_elements[2]
    /\ report.text_elements[1].x # TextCallbacksOf(ops)[1].tm[5]

\* the box holds the point
Holds(bbox, p) ==
    /\ bbox.x0 <= p[1] /\ p[1] <= bbox.x1
    /\ bbox.y0 <= p[2] /\ p[2] <= bbox.y1

\* C19: for a Do on an image XObject the recorded bounding box holds the
\* images under cm of the four corners (0,0), (1,0), (0,1), (1,1) of the
\* unit square, also when cm encodes a flip or a rotation.
C19_BoxHoldsUnitSquare ==
    pc \in {"extract", "extracted", "KeyError"} =>
        /\ Len(image_elements) = Len(ImageDosOf(Made))
        /\ \A x \in 1..Len(image_elements) :
              \A corner \in {<<0, 0>>, <<1, 0>>, <<0, 1>>, <<1, 1>>} :
                  Holds(image_elements[x].bbox,
                        _transform_point(corner[1], corner[2], ImageDosOf(Made)[x].cm))

\* C20: a Do that names an XObject which is absent, or present but not an
\* image (an entry without /Subtype included), raises no error and leaves
\* the text and image lists unchanged; so does every operator other than Do.
C20_NonImageDoIgnored ==
    [][(/\ pc = "extract"
        /\ k <= Len(ops)
        /\ ops[k].cb = "op"
        /\ ~IsImageDo(ops[k]))
       => (/\ pc' # "KeyError"
           /\ text_elements' = text_elements
           /\ image_elements' = image_elements)]_vars

\* the report variable still holds what it held before the call: no
\* PageReport was returned
NoReportReturned == report = PageReport(BoundingBox(0, 0, 0, 0), <<>>, <<>>)

\* C21: when the content-stream walk fails part-way through a page, no
\* PageReport is returned (the elements collected before the failure do not
\* reach the caller) and the caller receives a typed extraction error that
\* carries the page number.
C21_FailureTypedWithPage ==
    (pc = "raised" /\ k > 1) =>
        /\ NoReportReturned
        /\ result.exception = "ExtractionError"
        /\ "page" \in DOMAIN result
        /\ result.page = call.page

----------------------------------------------------------------------------
(* Properties of _merge_image_elements, checked under SpecMerge *)

HGap(b1, b2) == Max2(0, Max2(b1.x0, b2.x0) - Min2(b1.x1, b2.x1))

VGap(b1, b2) == Max2(0, Max2(b1.y0, b2.y0) - Min2(b1.y1, b2.y1))

\* input images a and b are within the tolerance in both axes
Near(a, b) ==
    /\ HGap(report.image_elements[a].bbox, report.image_elements[b].bbox) <= tolerance
    /\ VGap(report.image_elements[a].bbox, report.image_elements[b].bbox) <= tolerance

\* the input images linked to those of S by a chain of near pairs
RECURSIVE LinkedTo(_)
LinkedTo(S) ==
    LET T == S \cup { b \in 1..Len(report.image_elements) : \E a \in S : Near(a, b) }
    IN  IF T = S THEN S ELSE LinkedTo(T)

\* the members (input indices) of each output element, in output order
OutputGroups == GroupLoop(parent, 1, Len(report.image_elements), <<>>)

SameOutput(a, b) ==
    \E g \in 1..Len(OutputGroups) :
        a \in Range(OutputGroups[g].indices) /\ b \in Range(OutputGroups[g].indices)

\* C10: two input images end in the same output element if and only if a
\* chain of input images links them in which every consecutive pair has
\* horizontal and vertical gap <= t; a gap equal to t merges, a larger gap
\* with no linking chain keeps them apart.
C10_MergedIffLinked ==
    pc = "merged" =>
        /\ Len(images) = Len(OutputGroups)
        /\ \A a, b \in 1..Len(report.image_elements) :
              SameOutput(a, b) <=> b \in LinkedTo({a})
        /\ report.image_elements = <<ImA, ImB>> =>
              IF tolerance >= 1
              THEN images = <<ImageElement(<<"ImA", "+", "ImB">>, BoundingBox(0, 0, 9, 4))>>
              ELSE images = <<ImA, ImB>>

\* three images in one output element, two of them not near each other but
\* linked through the third, one pair at a gap exactly equal to the tolerance
C10_Witness ==
    /\ pc = "merged"
    /\ Len(report.image_elements) = 3
    /\ Len(images) = 1
    /\ tolerance > 0
    /\ \E a, b \in 1..3 : ~Near(a, b) /\ SameOutput(a, b)
    /\ \E a, b \in 1..3 :
          /\ a # b
          /\ Max2(HGap(report.image_elements[a].bbox, report.image_elements[b].bbox),
                  VGap(report.image_elements[a].bbox, report.image_elements[b].bbox))
               = tolerance

\* the clusters of the input: the classes of "linked by a chain of near pairs"
Clusters == { LinkedTo({a}) : a \in 1..Len(report.image_elements) }

\* the members of a cluster in ascending input index order
Ascending(S) ==
    [r \in 1..Cardinality(S) |-> CHOOSE a \in S : Cardinality({ b \in S : b < a }) = r - 1]

\* the clusters in the order of their smallest member
ClusterOrder ==
    [r \in 1..Cardinality(Clusters) |->
        CHOOSE S \in Clusters :
            Cardinality({ T \in Clusters : Ascending(T)[1] < Ascending(S)[1] }) = r - 1]

RECURSIVE JoinNames(_)
JoinNames(members) ==
    IF Len(members) = 1 THEN report.image_elements[members[1]].name
    ELSE report.image_elements[members[1]].name \o <<"+">> \o JoinNames(Tail(members))

Envelope(S) ==
    BoundingBox(MinOf({ report.image_elements[a].bbox.x0 : a \in S }),
                MinOf({ report.image_elements[a].bbox.y0 : a \in S }),
                MaxOf({ report.image_elements[a].bbox.x1 : a \in S }),
                MaxOf({ report.image_elements[a].bbox.y1 : a \in S }))

\* C11: the merger returns exactly one ImageElement per cluster, every input
\* image is in exactly one cluster, each output box is the envelope (min x0,
\* min y0, max x1, max y1) of its members and each output name is the member
\* names joined by "+" in ascending input index order.
C11_OnePerClusterEnvelope ==
    pc = "merged" =>
        /\ \A a \in 1..Len(report.image_elements) :
              Cardinality({ S \in Clusters : a \in S }) = 1
        /\ Len(images) = Cardinality(Clusters)
        /\ \A g \in 1..Len(images) :
              /\ images[g].bbox = Envelope(ClusterOrder[g])
              /\ images[g].name = JoinNames(Ascending(ClusterOrder[g]))

\* inputs 1 and 3 merge around input 2, which stays alone, and the envelope
\* differs from the box of the first member
C11_Witness ==
    /\ pc = "merged"
    /\ Len(report.image_elements) = 3
    /\ Clusters = {{1, 3}, {2}}
    /\ Len(images) = 2
    /\ images[1].name = report.image_elements[1].name \o <<"+">> \o report.image_elements[3].name
    /\ images[1].bbox # report.image_elements[1].bbox
    /\ images[2] = report.image_elements[2]

\* the corners of the box are in order
Ordered(bbox) == bbox.x0 <= bbox.x1 /\ bbox.y0 <= bbox.y1

\* C25: every ImageElement the merger returns has bbox.x0 <= bbox.x1 and
\* bbox.y0 <= bbox.y1, for every input list, also when input boxes have
\* their corners unordered and for clusters of a single image.
C25_OutputBoxesOrdered ==
    pc = "merged" => \A g \in 1..Len(images) : Ordered(images[g].bbox)

----------------------------------------------------------------------------
(* Properties of _call_api_with_retry, checked under SpecRetry *)

IsCall(entry) == entry.did = "call"

IsSleep(entry) == entry.did = "sleep"

\* the calls of func made so far, and the sleeps
CallsMade == SelectSeq(ops, IsCall)

Sleeps == SelectSeq(ops, IsSleep)

Transient == {"APIConnectionError", "APITimeoutError"}

\* the calls of func before the n-th all raised a connection or timeout error
AllTransientBefore(n) == \A m \in 1..(n - 1) : call.outcomes[m] \in Transient

\* C28: _call_api_with_retry calls func at most MAX_RETRIES times and
\* returns the result of the first call that succeeds; it calls again only
\* after an APIConnectionError or APITimeoutError, sleeping 2^attempt seconds
\* first; any other exception leaves at its first occurrence with no further
\* call; after MAX_RETRIES such errors in a row the last one is raised.
C28_RetryOnlyTransient ==
    /\ Len(CallsMade) <= call.max_retries
    /\ \A n \in 1..Len(CallsMade) : CallsMade[n].n = n /\ AllTransientBefore(n)
    /\ \A n \in 1..Len(ops) :
          /\ (ops[n].did = "call" /\ n > 1) =>
                ops[n - 1] = [did |-> "sleep", n |-> Pow2(ops[n].n - 2)]
          /\ ops[n].did = "sleep" => (n > 1 /\ ops[n - 1].did = "call")
    /\ (pc = "returned" /\ CallsMade # <<>>) =>
          /\ call.outcomes[Len(CallsMade)] = "ok"
          /\ result.value = <<"result of call", Len(CallsMade)>>
    /\ pc = "raised" =>
          /\ result.exception = call.outcomes[Len(CallsMade)]
          /\ result.exception # "ok"
          /\ result.exception \in Transient => Len(CallsMade) = call.max_retries
    /\ (pc \in {"returned", "raised"}) =>
          \/ Len(CallsMade) = call.max_retries
          \/ call.outcomes[Len(CallsMade)] \notin Transient

\* five connection and timeout errors in a row: five calls, sleeps of 1, 2,
\* 4 and 8 seconds between them, and the fifth error raised
C28_Witness ==
    /\ pc = "raised"
    /\ call.max_retries = MAX_RETRIES
    /\ Len(CallsMade) = MAX_RETRIES
    /\ [n \in 1..Len(Sleeps) |-> Sleeps[n].n] = <<1, 2, 4, 8>>
    /\ call.outcomes[4] = "APIConnectionError"
    /\ result.exception = "APITimeoutError"

----------------------------------------------------------------------------
(* Properties of process_document, checked under SpecDocument *)

\* the target pages as C29 words them: the requested pages that lie in
\* 1..total_pages, in the order requested, or all pages when none are
\* requested
Requested == call.pages

PagesOfFile == get_page_count(call.file)

IsTarget(p) == p \in 1..PagesOfFile

Target ==
    IF Requested # <<>> THEN SelectSeq(Requested, IsTarget)
    ELSE [n \in 1..PagesOfFile |-> n]

\* one OcrPageResult per target page, in target order, a pass that raised
\* recorded as a failed result and followed by the later pages
OneResultPerTarget ==
    /\ Len(result.results) = Len(Target)
    /\ \A n \in 1..Len(Target) :
          /\ result.results[n].page = Target[n]
          /\ result.results[n].success = (call.outcomes[n] = "ok")

\* C29: for an existing file process_document returns exactly one
\* OcrPageResult per target page, in target order; a failure on one page is
\* that page's failed result and does not stop later pages; and
\* OcrResult.success is true if and only if at least one page was processed
\* and every page result succeeded.
C29_OnePerPageSuccessIffAll ==
    (pc = "returned" /\ call.file.exists) =>
        /\ OneResultPerTarget
        /\ result.success =
              (Len(result.results) >= 1 /\ AllSucceeded(result.results))

----------------------------------------------------------------------------
(* Properties of _merge_image_elements applied to its own output, checked  *)
(* under SpecRemerge                                                       *)

\* two elements of the list within the tolerance of each other in both axes
NearPairIn(imgs) ==
    \E g, h \in 1..Len(imgs) :
        /\ g # h
        /\ HGap(imgs[g].bbox, imgs[h].bbox) <= tolerance
        /\ VGap(imgs[g].bbox, imgs[h].bbox) <= tolerance

BoxesOf(imgs) == [g \in 1..Len(imgs) |-> imgs[g].bbox]

SecondDone == pc = "merged" /\ call.run = 2

\* C30: merging is a fixpoint: for every list of images with ordered boxes
\* and every tolerance t, no two elements of the output are within
\* tolerance t of each other in both axes, so applying
\* _merge_image_elements to its own output returns the same boxes.
C30_MergeIsFixpoint ==
    /\ pc = "merged" => ~NearPairIn(images)
    /\ SecondDone => BoxesOf(images) = BoxesOf(call.merged)

\* C30, as the code has it: input images of different output elements are
\* never within tolerance t of each other in both axes, but two output
\* elements can be; when no two elements of the output are, applying
\* _merge_image_elements to the output returns the same elements, and
\* otherwise it returns fewer.
C30_FixpointUnlessEnvelopesNear ==
    /\ pc = "merged" =>
          \A a, b \in 1..Len(report.image_elements) :
              Near(a, b) => SameOutput(a, b)
    /\ SecondDone =>
          IF NearPairIn(call.merged)
          THEN Len(images) < Len(call.merged)
          ELSE images = call.merged

\* ImB and ImD merge at tolerance 3 and ImF, near neither, stays alone; the
\* envelope of ImB and ImD covers ImF, and the second application merges
\* the two
C30_Witness ==
    /\ SecondDone
    /\ tolerance = 3
    /\ call.images = <<ImB, ImD, ImF>>
    /\ Len(call.merged) = 2
    /\ call.merged[2] = ImF
    /\ images = <<ImageElement(<<"ImB", "+", "ImD", "+", "ImF">>,
                               BoundingBox(0, 0, 9, 10))>>

====
